---- MODULE Spec2Model ----
(***************************************************************************)
(* Scrape execution of the scraper engine: BaseScraper.scrape (proxy       *)
(* request with fallback to a direct request, content hash, evaluation of  *)
(* the comma-joined candidate selectors) and its caller                    *)
(* ScrapeService.executeScrape (scrape log, alerts), the platform scrapers  *)
(* that call scrape with the configuration of their class, and the routes  *)
(* POST /api/scrape/:platformId, /api/scrape/all, /api/test-selector and  *)
(* /api/competitor-analysis/:city; retryWithBackoff of the shared package  *)
(* and calculateQualityScore of the analyzer.                              *)
(*                                                                         *)
(* Specifications: Spec (one executeScrape), SpecThresholds (the same at   *)
(* the edges of the minimum), SpecAll (a batch over the table of           *)
(* monitors), SpecPlatform (a scrape by id), SpecListings (a platform      *)
(* scraper, with the clock), FairListings (the same with fair answers),    *)
(* SpecTestSelector, SpecCompetitor, SpecRetry, SpecQuality.               *)
(*                                                                         *)
(* A step of the model is what runs between two awaits of the code: a      *)
(* call runs up to its first await, and every response of the network or   *)
(* of the database runs the continuation up to the next await.             *)
(***************************************************************************)
EXTENDS Integers, Sequences, FiniteSets, TLC

VARIABLES
    apiKey,          \* BaseScraper.apiKey of the instance ScrapeService holds
    monitors,        \* id of an executeScrape call -> the PlatformMonitor it is given
    configs,         \* id of a platform scraper -> the ScraperConfig of its class
    testing,         \* url, selector and page of POST /api/test-selector
    epc,             \* position of each caller of scrape
    spc,             \* position of the scrape invocation each call makes
    scrapeCalls,     \* how many times each executeScrape call has called scrape
    args,            \* url, selector and options of the scrape invocation
    requests,        \* the outbound fetches of the invocation, in order
    proxyError,      \* the scrapingBeeError caught at line 61, if any
    fetched,         \* the response.data assigned to html, if any
    evaluation,      \* what the selector loop did (lines 76-97)
    caught,          \* the error caught at line 110, if any
    result,          \* the ScrapeResult the invocation returned
    scrapeLogs,      \* table scrape_logs
    platformAlerts,  \* table platform_alerts
    now,             \* what Date.now() returns
    startTime,       \* const startTime of each invocation (line 37)
    phases,          \* the phases each invocation went through, with their times
    alertInserts,    \* the inserts into platform_alerts that were sent, in order
    hpc,             \* position of the route handler (scrape/all, test-selector)
    response,        \* what that handler answered
    params,          \* req.params of the request a route handler is serving
    analysis,        \* POST /api/competitor-analysis/:city: its fetches and counts
    retry,           \* one call of retryWithBackoff: arguments, position, history
    quality          \* one call of calculateQualityScore: inputs, position, result

vars == <<apiKey, monitors, configs, testing, epc, spc, scrapeCalls, args,
          requests, proxyError, fetched, evaluation, caught, result,
          scrapeLogs, platformAlerts, now, startTime, phases, alertInserts,
          hpc, response, params, analysis, retry, quality>>

(***************************************************************************)
(* Bounds of the model.                                                    *)
(***************************************************************************)
MaxCandidates == 3
MaxTime == 3
MaxRetries == 3
MaxLogs == 2

(***************************************************************************)
(* Program constants.                                                      *)
(***************************************************************************)
ConfidenceThreshold == 10
DefaultTimeout == 30000
ProxyOverhead == 5000
ServiceTimeout == 30000
ConfigTimeout == 45000
MaxAlternatives == 10
DefaultInitialDelay == 1000

None == [none |-> TRUE]
Undefined == [undefined |-> TRUE]

(***************************************************************************)
(* Selector strings.  A string is a sequence of tokens: a simple selector  *)
(* (".foo", ".bar"), a text that is no selector ("["), a comma or a space. *)
(***************************************************************************)
Atoms == {".foo", ".bar", "["}
Comma == ","
Space == " "

Candidates == {<<>>} \cup {<<a>> : a \in Atoms}
Separators == {<<Comma>>, <<Comma, Space>>}
CandidateLists == UNION {[1..n -> Candidates] : n \in 1..MaxCandidates}

RECURSIVE Join(_, _)
Join(cands, sep) ==
    IF Len(cands) = 1 THEN cands[1]
    ELSE cands[1] \o sep \o Join(Tail(cands), sep)

SelectorStrings == {Join(c, sep) : c \in CandidateLists, sep \in Separators}

\* String.prototype.split(','): the pieces between the commas, in order.
RECURSIVE Split(_)
Split(s) ==
    IF \A k \in 1..Len(s) : s[k] # Comma THEN <<s>>
    ELSE LET k == CHOOSE j \in 1..Len(s) :
                      s[j] = Comma /\ \A l \in 1..(j - 1) : s[l] # Comma
         IN  <<SubSeq(s, 1, k - 1)>> \o Split(SubSeq(s, k + 1, Len(s)))

\* String.prototype.trim(): the string without its leading and trailing spaces.
RECURSIVE Trim(_)
Trim(s) ==
    IF s = <<>> THEN s
    ELSE IF Head(s) = Space THEN Trim(Tail(s))
    ELSE IF s[Len(s)] = Space THEN Trim(SubSeq(s, 1, Len(s) - 1))
    ELSE s

\* selector.split(',').map(s => s.trim())
SplitSelectors(selector) ==
    LET parts == Split(selector)
    IN  [k \in 1..Len(parts) |-> Trim(parts[k])]

(***************************************************************************)
(* Response bodies.  A page is a flat document holding page.foo elements   *)
(* of class foo and page.bar elements of class bar.  A body that parses as *)
(* JSON reaches the code as the parsed value, which is no string.          *)
(***************************************************************************)
CountValues == {0, 3, 10, 12}
Pages == [type : {"string"}, foo : CountValues, bar : CountValues]
JsonBody == [type |-> "object"]
Bodies == Pages \cup {JsonBody}

\* What the site behind a url can answer a request with, and how a request to
\* it can fail.  The listing site answers and fails in every way of the model;
\* the two other sites are small: a page with 3 .foo and 12 .bar elements or an
\* empty page, and a JSON feed that at times serves that same page.
ListingSite == "https://example.test/listA"
SmallSite == "https://example.test/listB"
FeedSite == "https://example.test/feed"
SiteBodies(url) ==
    IF url = ListingSite THEN Bodies
    ELSE IF url = SmallSite
         THEN {[type |-> "string", foo |-> 3, bar |-> 12],
               [type |-> "string", foo |-> 0, bar |-> 0]}
    ELSE {JsonBody, [type |-> "string", foo |-> 3, bar |-> 12]}

\* css-what rejects a selector it cannot parse: $(sel) throws.
ValidSelector(sel) == \A k \in 1..Len(sel) : sel[k] # "["

\* $(sel).length for a selector that parses.
SelectorCount(html, sel) ==
    IF Len(sel) = 0 THEN 0
    ELSE IF Len(sel) > 1 THEN 0
    ELSE IF sel[1] = ".foo" THEN html.foo
    ELSE IF sel[1] = ".bar" THEN html.bar
    ELSE 0

hashHtml(html) == "sha256:" \o ToString(html.foo) \o ":" \o ToString(html.bar)

(***************************************************************************)
(* Errors.                                                                 *)
(***************************************************************************)
FetchFailures == {"network", "timeout", "status", "nonError"}

SiteFailures(url) ==
    IF url = ListingSite THEN FetchFailures
    ELSE IF url = SmallSite THEN {"timeout"}
    ELSE {"nonError"}

FetchError(kind, path, timeout) ==
    IF kind = "nonError" THEN [isError |-> FALSE, message |-> "", origin |-> path]
    ELSE [isError |-> TRUE,
          message |-> IF kind = "network" THEN "Network Error"
                      ELSE IF kind = "status"
                           THEN "Request failed with status code 500"
                      ELSE "timeout of " \o ToString(timeout) \o "ms exceeded",
          origin |-> path]

HashTypeError ==
    [isError |-> TRUE, origin |-> "hash",
     message |-> "The \"data\" argument must be of type string"]

SelectorSyntaxError ==
    [isError |-> TRUE, origin |-> "selector",
     message |-> "Attribute selector didn't terminate"]

(***************************************************************************)
(* BaseScraper.                                                            *)
(***************************************************************************)
EnvKeys == {"", "sb-env-key"}

\* this.apiKey = apiKey || process.env.SCRAPINGBEE_API_KEY || ''
BaseScraperConstructor(apiKeyArg, envKey) ==
    IF apiKeyArg # "" THEN apiKeyArg
    ELSE IF envKey # "" THEN envKey
    ELSE ""

\* Mutant: the proxy is tried whether or not a key is configured.
UseProxyAlways(key) == TRUE

\* if (this.apiKey)
UseProxy(key) == key # ""

\* options.timeout || 30000
OptionTimeout(options) ==
    IF "timeout" \in DOMAIN options /\ options.timeout # 0
    THEN options.timeout ELSE DefaultTimeout

ProxyDefaultHeaders == {"User-Agent"}
DirectDefaultHeaders ==
    {"User-Agent", "Accept", "Accept-Language", "Accept-Encoding",
     "Connection", "Upgrade-Insecure-Requests"}

\* options.headers || { ... }
OptionHeaders(options, defaults) ==
    IF "headers" \in DOMAIN options THEN options.headers ELSE defaults

\* Mutant: the proxy request gets the configured timeout and no more.
ProxyTimeoutPlain(options) == OptionTimeout(options)

\* timeout: (options.timeout || 30000) + 5000
ProxyTimeout(options) == OptionTimeout(options) + ProxyOverhead

\* timeout: options.timeout || 30000
DirectTimeout(options) == OptionTimeout(options)

\* axios.get('https://app.scrapingbee.com/api/v1/', {...})
ProxyRequest(url, options) ==
    [path |-> "proxy", url |-> url, render_js |-> TRUE,
     headers |-> OptionHeaders(options, ProxyDefaultHeaders),
     timeout |-> ProxyTimeout(options)]

\* fetchDirect: axios.get(url, {...})
DirectRequest(url, options) ==
    [path |-> "direct", url |-> url,
     headers |-> OptionHeaders(options, DirectDefaultHeaders),
     timeout |-> DirectTimeout(options)]

\* Mutant: an equal count replaces the current best.
IsBetterOrEqual(count, listingsFound) == count >= listingsFound

\* if (count > listingsFound)
IsBetter(count, listingsFound) == count > listingsFound

\* Mutant: the threshold itself is not enough to stop.
IsConfidentStrict(count) == count > ConfidenceThreshold

\* if (count >= 10)
IsConfident(count) == count >= ConfidenceThreshold

\* for (const sel of selectors) { ... }: the loop from candidate idx on.  It ends
\* by running out of candidates, by the break, or by $(sel) throwing.
RECURSIVE SelectorLoop(_, _, _, _, _, _)
SelectorLoop(html, selectors, idx, listingsFound, workingSelector, evaluated) ==
    IF idx > Len(selectors)
    THEN [threw |-> FALSE, broke |-> FALSE, listingsFound |-> listingsFound,
          workingSelector |-> workingSelector, evaluated |-> evaluated]
    ELSE LET sel == selectors[idx]
             seen == Append(evaluated, sel)
         IN  IF ~ValidSelector(sel)
             THEN [threw |-> TRUE, broke |-> FALSE, listingsFound |-> listingsFound,
                   workingSelector |-> workingSelector, evaluated |-> seen]
             ELSE LET count == SelectorCount(html, sel)
                      better == IsBetter(count, listingsFound)
                      found == IF better THEN count ELSE listingsFound
                      working == IF better THEN sel ELSE workingSelector
                  IN  IF IsConfident(count)
                      THEN [threw |-> FALSE, broke |-> TRUE, listingsFound |-> count,
                            workingSelector |-> sel, evaluated |-> seen]
                      ELSE SelectorLoop(html, selectors, idx + 1, found, working, seen)

\* Mutant: workingSelector starts as the last candidate of the list.
EvaluateSelectorsFromLast(html, selector) ==
    LET selectors == SplitSelectors(selector)
    IN  SelectorLoop(html, selectors, 1, 0, selectors[Len(selectors)], <<>>)

\* lines 76-97: let listingsFound = 0; let workingSelector = selector; the loop.
EvaluateSelectors(html, selector) ==
    SelectorLoop(html, SplitSelectors(selector), 1, 0, selector, <<>>)

\* Mutant: the message is read off whatever was thrown.
ErrorMessageRaw(error) == error.message

\* error instanceof Error ? error.message : 'Unknown error'
ErrorMessage(error) == IF error.isError THEN error.message ELSE "Unknown error"

\* Mutant: a scrape that found nothing is reported as failed.
SuccessResultNonEmpty(listingsFound, htmlHash) ==
    [success |-> listingsFound > 0, listingsFound |-> listingsFound,
     htmlHash |-> htmlHash]

\* lines 103-109
SuccessResult(listingsFound, htmlHash) ==
    [success |-> TRUE, listingsFound |-> listingsFound, htmlHash |-> htmlHash]

\* Mutant: the failed result carries the hash of an empty body.
FailureResultHashed(error) ==
    [success |-> FALSE, listingsFound |-> 0, htmlHash |-> "sha256:empty",
     error |-> IF error.isError THEN error.message ELSE "Unknown error"]

\* lines 116-123
FailureResult(error) ==
    [success |-> FALSE, listingsFound |-> 0, htmlHash |-> "",
     error |-> ErrorMessage(error)]

\* A completion of the try block: it returns a value or throws an error.
Return(value) == [threw |-> FALSE, value |-> value]
Throw(error) == [threw |-> TRUE, error |-> error]

\* Lines 72-109 for html = data: hash (crypto throws on data that is no string),
\* parse, evaluate the candidates and return the successful result.
HashAndEvaluate(data, selector) ==
    IF data.type # "string"
    THEN [completion |-> Throw(HashTypeError), evaluation |-> None]
    ELSE LET ev == EvaluateSelectors(data, selector)
         IN  [completion |-> IF ev.threw THEN Throw(SelectorSyntaxError)
                             ELSE Return(SuccessResult(ev.listingsFound,
                                                       hashHtml(data))),
              evaluation |-> ev]

\* Mutant: no catch around the try block, an error rejects the promise.
SettleWithoutCatch(completion) ==
    IF completion.threw
    THEN [state |-> "rejected", value |-> None, caught |-> None]
    ELSE [state |-> "resolved", value |-> completion.value, caught |-> None]

\* try { ... } catch (error) { ... } (lines 39, 110-124): how the promise that
\* scrape returned settles for a completion of the try block.
Settle(completion) ==
    IF completion.threw
    THEN [state |-> "resolved", value |-> FailureResult(completion.error),
          caught |-> completion.error]
    ELSE [state |-> "resolved", value |-> completion.value, caught |-> None]

\* const responseTime = Date.now() - startTime (lines 99 and 114)
ResponseTime(i) == now - startTime[i]

\* The ScrapeResult with the responseTime both return statements give it.
Timed(i, value) ==
    IF value = None THEN None ELSE [responseTime |-> ResponseTime(i)] @@ value

\* An entry of the history phases.
Phase(name) == [name |-> name, at |-> now]

\* The try block completed, having entered the phases of the sequence entered
\* since the fetch: the invocation settles.
Complete(i, completion, entered) ==
    LET settled == Settle(completion)
    IN  /\ spc' = [spc EXCEPT ![i] = settled.state]
        /\ result' = [result EXCEPT ![i] = Timed(i, settled.value)]
        /\ caught' = [caught EXCEPT ![i] = settled.caught]
        /\ phases' = [phases EXCEPT ![i] =
               @ \o entered
                 \o <<Phase(IF completion.threw THEN "failed" ELSE "done")>>]

\* Mutant: the selector is kept in a field of the instance, which the
\* invocation started last has overwritten.
FinishShared(i, data) ==
    LET started == {j \in DOMAIN args : args[j] # None}
        last == CHOOSE j \in started : \A k \in started : k <= j
        done == HashAndEvaluate(data, args[last].selector)
    IN  /\ fetched' = [fetched EXCEPT ![i] = data]
        /\ evaluation' = [evaluation EXCEPT ![i] = done.evaluation]
        /\ Complete(i, done.completion,
                    IF done.evaluation = None THEN <<>>
                    ELSE <<Phase("evaluating")>>)

\* A request answered 2xx: html = response.data, then lines 72-124.
Finish(i, data) ==
    LET done == HashAndEvaluate(data, args[i].selector)
    IN  /\ fetched' = [fetched EXCEPT ![i] = data]
        /\ evaluation' = [evaluation EXCEPT ![i] = done.evaluation]
        /\ Complete(i, done.completion,
                    IF done.evaluation = None THEN <<>>
                    ELSE <<Phase("evaluating")>>)

\* scrape(url, selector, options) up to its first await (lines 36-59, 66-69).
Scrape(i, url, selector, options) ==
    /\ startTime' = [startTime EXCEPT ![i] = now]
    /\ phases' = [phases EXCEPT ![i] = <<Phase("fetching")>>]
    /\ args' = [args EXCEPT ![i] =
                    [url |-> url, selector |-> selector, options |-> options]]
    /\ IF UseProxy(apiKey)
       THEN /\ requests' = [requests EXCEPT ![i] =
                                Append(@, ProxyRequest(url, options))]
            /\ spc' = [spc EXCEPT ![i] = "proxy"]
       ELSE /\ requests' = [requests EXCEPT ![i] =
                                Append(@, DirectRequest(url, options))]
            /\ spc' = [spc EXCEPT ![i] = "direct"]

\* The proxy answers 2xx: html = response.data (line 60), then lines 72-124.
ProxySucceeds(i) ==
    /\ spc[i] = "proxy"
    /\ \E data \in SiteBodies(args[i].url) : Finish(i, data)
    /\ UNCHANGED <<apiKey, monitors, configs, testing, epc, scrapeCalls, args,
                   requests, proxyError, scrapeLogs, platformAlerts, now,
                   startTime, alertInserts, hpc, response, params, analysis,
                   retry, quality>>

\* Mutant: the proxy's error is thrown on instead of falling back.
ProxyFailsSurfaced(i) ==
    /\ spc[i] = "proxy"
    /\ \E kind \in SiteFailures(args[i].url) :
           LET error == FetchError(kind, "proxy", ProxyTimeout(args[i].options))
           IN  /\ proxyError' = [proxyError EXCEPT ![i] = error]
               /\ Complete(i, Throw(error), <<>>)
    /\ UNCHANGED <<apiKey, monitors, configs, testing, epc, scrapeCalls, args,
                   requests, fetched, evaluation, scrapeLogs, platformAlerts,
                   now, startTime, alertInserts, hpc, response, params,
                   analysis, retry, quality>>

\* Mutant: the time is measured from the fallback on.
ProxyFailsRestartingClock(i) ==
    /\ spc[i] = "proxy"
    /\ \E kind \in SiteFailures(args[i].url) :
           proxyError' = [proxyError EXCEPT ![i] =
               FetchError(kind, "proxy", ProxyTimeout(args[i].options))]
    /\ requests' = [requests EXCEPT ![i] =
                        Append(@, DirectRequest(args[i].url, args[i].options))]
    /\ spc' = [spc EXCEPT ![i] = "direct"]
    /\ startTime' = [startTime EXCEPT ![i] = now]
    /\ UNCHANGED <<apiKey, monitors, configs, testing, epc, scrapeCalls, args,
                   fetched, evaluation, caught, result, scrapeLogs,
                   platformAlerts, now, phases, alertInserts, hpc, response,
                   params, analysis, retry, quality>>

\* The proxy request rejects: the catch of line 61 calls fetchDirect (line 64).
ProxyFails(i) ==
    /\ spc[i] = "proxy"
    /\ \E kind \in SiteFailures(args[i].url) :
           proxyError' = [proxyError EXCEPT ![i] =
               FetchError(kind, "proxy", ProxyTimeout(args[i].options))]
    /\ requests' = [requests EXCEPT ![i] =
                        Append(@, DirectRequest(args[i].url, args[i].options))]
    /\ spc' = [spc EXCEPT ![i] = "direct"]
    /\ UNCHANGED <<apiKey, monitors, configs, testing, epc, scrapeCalls, args,
                   fetched, evaluation, caught, result, scrapeLogs,
                   platformAlerts, now, startTime, phases, alertInserts, hpc,
                   response, params, analysis, retry, quality>>

\* The direct request answers 2xx: html = response.data, then lines 72-124.
DirectSucceeds(i) ==
    /\ spc[i] = "direct"
    /\ \E data \in SiteBodies(args[i].url) : Finish(i, data)
    /\ UNCHANGED <<apiKey, monitors, configs, testing, epc, scrapeCalls, args,
                   requests, proxyError, scrapeLogs, platformAlerts, now,
                   startTime, alertInserts, hpc, response, params, analysis,
                   retry, quality>>

\* Mutant: a failed direct request is sent once more before giving up.
DirectFailsRetrying(i) ==
    /\ spc[i] = "direct"
    /\ IF requests[i][Len(requests[i])].path = "direct"
          /\ Len(SelectSeq(requests[i], LAMBDA r : r.path = "direct")) < 2
       THEN /\ requests' = [requests EXCEPT ![i] =
                                Append(@, DirectRequest(args[i].url, args[i].options))]
            /\ UNCHANGED <<spc, result, caught, phases>>
       ELSE /\ \E kind \in SiteFailures(args[i].url) :
                   Complete(i, Throw(FetchError(kind, "direct",
                                                DirectTimeout(args[i].options))),
                            <<>>)
            /\ UNCHANGED requests
    /\ UNCHANGED <<apiKey, monitors, configs, testing, epc, scrapeCalls, args,
                   proxyError, fetched, evaluation, scrapeLogs, platformAlerts,
                   now, startTime, alertInserts, hpc, response, params,
                   analysis, retry, quality>>

\* Mutant: a failed direct request starts the fetch over from the proxy.
DirectFailsStartingOver(i) ==
    /\ spc[i] = "direct"
    /\ IF UseProxy(apiKey)
       THEN /\ requests' = [requests EXCEPT ![i] =
                                <<ProxyRequest(args[i].url, args[i].options)>>]
            /\ spc' = [spc EXCEPT ![i] = "proxy"]
       ELSE /\ requests' = [requests EXCEPT ![i] =
                                <<DirectRequest(args[i].url, args[i].options)>>]
            /\ spc' = [spc EXCEPT ![i] = "direct"]
    /\ UNCHANGED <<apiKey, monitors, configs, testing, epc, scrapeCalls, args,
                   proxyError, fetched, evaluation, caught, result, scrapeLogs,
                   platformAlerts, now, startTime, phases, alertInserts, hpc,
                   response, params, analysis, retry, quality>>

\* Mutant: after a failed proxy request a failed direct request reports the
\* proxy's rejection.
DirectFailsReportingProxy(i) ==
    /\ spc[i] = "direct"
    /\ \E kind \in SiteFailures(args[i].url) :
           Complete(i, Throw(IF proxyError[i] # None THEN proxyError[i]
                             ELSE FetchError(kind, "direct",
                                             DirectTimeout(args[i].options))),
                    <<>>)
    /\ UNCHANGED <<apiKey, monitors, configs, testing, epc, scrapeCalls, args,
                   requests, proxyError, fetched, evaluation, scrapeLogs,
                   platformAlerts, now, startTime, alertInserts, hpc, response,
                   params, analysis, retry, quality>>

\* The direct request rejects: fetchDirect throws into the catch of line 110.
DirectFails(i) ==
    /\ spc[i] = "direct"
    /\ \E kind \in SiteFailures(args[i].url) :
           Complete(i, Throw(FetchError(kind, "direct",
                                        DirectTimeout(args[i].options))), <<>>)
    /\ UNCHANGED <<apiKey, monitors, configs, testing, epc, scrapeCalls, args,
                   requests, proxyError, fetched, evaluation, scrapeLogs,
                   platformAlerts, now, startTime, alertInserts, hpc, response,
                   params, analysis, retry, quality>>

(***************************************************************************)
(* ScrapeService.                                                          *)
(***************************************************************************)
ExpectedMinValues == {5}
Null == "<null>"

PlatformMonitors ==
    [url : {ListingSite}, selector : SelectorStrings,
     expectedMinListings : ExpectedMinValues, status : {"active"}]

\* A row of table platform_monitors as supabase returns it from select('*'):
\* the properties are the column names.  The routes of index.ts hand such a
\* row to executeScrape as its monitor.
RowExpectedMinValues == {5}
MonitorRows ==
    [url : {ListingSite}, selector : SelectorStrings,
     expected_min_listings : RowExpectedMinValues, status : {"active"}]

\* The options executeScrape passes to scrape.
ServiceOptions == [timeout |-> ServiceTimeout, headers |-> {"User-Agent"}]

\* Mutant: the error column takes the error as it is, '' where there is none.
ErrorOrEmpty(r) == IF "error" \in DOMAIN r THEN r.error ELSE ""

\* result.error || null
ErrorOrNull(r) == IF "error" \in DOMAIN r /\ r.error # "" THEN r.error ELSE Null

\* The row executeScrape inserts into scrape_logs.
ScrapeLogRow(i, r) ==
    [platform_id |-> i, listings_found |-> r.listingsFound, success |-> r.success,
     html_hash |-> r.htmlHash, error_message |-> ErrorOrNull(r),
     response_time |-> r.responseTime]

\* Mutant: a count equal to the minimum is taken for one below it.
BelowOrAtExpected(monitor, r) ==
    /\ "expectedMinListings" \in DOMAIN monitor
    /\ r.listingsFound <= monitor.expectedMinListings

\* checkAndCreateAlerts: the alert_type it inserts, or Null when it inserts none.
\* result.listingsFound < monitor.expectedMinListings: the property is undefined
\* on an object that has no property of that name, and no number is below
\* undefined.
BelowExpected(monitor, r) ==
    /\ "expectedMinListings" \in DOMAIN monitor
    /\ r.listingsFound < monitor.expectedMinListings

AlertType(monitor, r) ==
    IF ~r.success THEN "scrape_failure"
    ELSE IF r.listingsFound = 0 THEN "no_listings"
    ELSE IF BelowExpected(monitor, r) THEN "low_listings"
    ELSE Null

\* The row checkAndCreateAlerts inserts into platform_alerts.
AlertRow(i, r) ==
    [platform_id |-> i, alert_type |-> AlertType(monitors[i], r),
     resolved |-> FALSE]

\* executeScrape(monitor) up to its first await: it calls this.scraper.scrape.
ExecuteScrape(i) ==
    /\ epc[i] = "ready"
    /\ epc' = [epc EXCEPT ![i] = "scraping"]
    /\ scrapeCalls' = [scrapeCalls EXCEPT ![i] = @ + 1]
    /\ Scrape(i, monitors[i].url, monitors[i].selector, ServiceOptions)
    /\ UNCHANGED <<apiKey, monitors, configs, testing, proxyError, fetched,
                   evaluation, caught, result, scrapeLogs, platformAlerts, now,
                   alertInserts, hpc, response, params, analysis, retry,
                   quality>>

\* scrape has returned: executeScrape sends the insert into scrape_logs.
SaveScrapeLog(i) ==
    /\ epc[i] = "scraping"
    /\ spc[i] = "resolved"
    /\ epc' = [epc EXCEPT ![i] = "inserting"]
    /\ UNCHANGED <<apiKey, monitors, configs, testing, spc, scrapeCalls, args,
                   requests, proxyError, fetched, evaluation, caught, result,
                   scrapeLogs, platformAlerts, now, startTime, phases,
                   alertInserts, hpc, response, params, analysis, retry,
                   quality>>

\* The insert succeeded: checkAndCreateAlerts runs up to its insert, if it has one.
InsertSucceeds(i) ==
    /\ epc[i] = "inserting"
    /\ scrapeLogs' = Append(scrapeLogs, ScrapeLogRow(i, result[i]))
    /\ epc' = [epc EXCEPT ![i] =
                  IF AlertType(monitors[i], result[i]) = Null
                  THEN "returned" ELSE "alerting"]
    /\ alertInserts' = IF AlertType(monitors[i], result[i]) = Null
                       THEN alertInserts
                       ELSE Append(alertInserts, AlertRow(i, result[i]))
    /\ UNCHANGED <<apiKey, monitors, configs, testing, spc, scrapeCalls, args,
                   requests, proxyError, fetched, evaluation, caught, result,
                   platformAlerts, now, startTime, phases, hpc, response,
                   params, analysis, retry, quality>>

\* Mutant: the error of the insert is not read and the alert check runs.
InsertFailsUnchecked(i) ==
    /\ epc[i] = "inserting"
    /\ epc' = [epc EXCEPT ![i] =
                  IF AlertType(monitors[i], result[i]) = Null
                  THEN "threw" ELSE "alerting"]
    /\ alertInserts' = IF AlertType(monitors[i], result[i]) = Null
                       THEN alertInserts
                       ELSE Append(alertInserts, AlertRow(i, result[i]))
    /\ UNCHANGED <<apiKey, monitors, configs, testing, spc, scrapeCalls, args,
                   requests, proxyError, fetched, evaluation, caught, result,
                   scrapeLogs, platformAlerts, now, startTime, phases, hpc,
                   response, params, analysis, retry, quality>>

\* The insert answered with an error: executeScrape throws it (line 90).
InsertFails(i) ==
    /\ epc[i] = "inserting"
    /\ epc' = [epc EXCEPT ![i] = "threw"]
    /\ UNCHANGED <<apiKey, monitors, configs, testing, spc, scrapeCalls, args,
                   requests, proxyError, fetched, evaluation, caught, result,
                   scrapeLogs, platformAlerts, now, startTime, phases,
                   alertInserts, hpc, response, params, analysis, retry,
                   quality>>

\* The insert into platform_alerts was stored.
AlertStored(i) ==
    /\ epc[i] = "alerting"
    /\ platformAlerts' = Append(platformAlerts, AlertRow(i, result[i]))
    /\ epc' = [epc EXCEPT ![i] = "returned"]
    /\ UNCHANGED <<apiKey, monitors, configs, testing, spc, scrapeCalls, args,
                   requests, proxyError, fetched, evaluation, caught, result,
                   scrapeLogs, now, startTime, phases, alertInserts, hpc,
                   response, params, analysis, retry, quality>>

\* The insert into platform_alerts answered with an error, which is not read.
AlertRejected(i) ==
    /\ epc[i] = "alerting"
    /\ epc' = [epc EXCEPT ![i] = "returned"]
    /\ UNCHANGED <<apiKey, monitors, configs, testing, spc, scrapeCalls, args,
                   requests, proxyError, fetched, evaluation, caught, result,
                   scrapeLogs, platformAlerts, now, startTime, phases,
                   alertInserts, hpc, response, params, analysis, retry,
                   quality>>

(***************************************************************************)
(* POST /api/scrape/:platformId: one executeScrape call.                   *)
(***************************************************************************)
SingleCall == {1}

\* The engine as index.ts constructs it, before any request: one ScrapeService
\* with its BaseScraper, the tables, and no call of the shared utilities.
InitEngine(calls, given) ==
    /\ \E envKey \in EnvKeys : apiKey = BaseScraperConstructor("", envKey)
    /\ monitors \in [calls -> given]
    /\ configs = [i \in calls |-> None]
    /\ testing = None
    /\ epc = [i \in calls |-> "ready"]
    /\ spc = [i \in calls |-> "idle"]
    /\ scrapeCalls = [i \in calls |-> 0]
    /\ args = [i \in calls |-> None]
    /\ requests = [i \in calls |-> <<>>]
    /\ proxyError = [i \in calls |-> None]
    /\ fetched = [i \in calls |-> None]
    /\ evaluation = [i \in calls |-> None]
    /\ caught = [i \in calls |-> None]
    /\ result = [i \in calls |-> None]
    /\ scrapeLogs = <<>>
    /\ platformAlerts = <<>>
    /\ now = 0
    /\ startTime = [i \in calls |-> 0]
    /\ phases = [i \in calls |-> <<>>]
    /\ alertInserts = <<>>
    /\ hpc = "idle"
    /\ response = None
    /\ params = None
    /\ analysis = None

InitCalls(calls, given) ==
    /\ InitEngine(calls, given)
    /\ retry = None
    /\ quality = None

Init == InitCalls(SingleCall, PlatformMonitors \cup MonitorRows)

Next ==
    \/ \E i \in DOMAIN monitors : ExecuteScrape(i)
    \/ \E i \in DOMAIN monitors : ProxySucceeds(i)
    \/ \E i \in DOMAIN monitors : ProxyFails(i)
    \/ \E i \in DOMAIN monitors : DirectSucceeds(i)
    \/ \E i \in DOMAIN monitors : DirectFails(i)
    \/ \E i \in DOMAIN monitors : SaveScrapeLog(i)
    \/ \E i \in DOMAIN monitors : InsertSucceeds(i)
    \/ \E i \in DOMAIN monitors : InsertFails(i)
    \/ \E i \in DOMAIN monitors : AlertStored(i)
    \/ \E i \in DOMAIN monitors : AlertRejected(i)

Spec == Init /\ [][Next]_vars

\* executeScrape of a monitor whose minimum is 0, or is the number of listings
\* of a page: the thresholds expected_min_listings INTEGER NOT NULL admits at
\* the edges of the comparisons of checkAndCreateAlerts.
ThresholdSelectors == {<<".foo">>, <<".bar">>, <<".foo", Comma, Space, ".bar">>}
ThresholdMonitors ==
    [url : {ListingSite}, selector : ThresholdSelectors,
     expectedMinListings : {0, 12}, status : {"active"}]
    \cup [url : {ListingSite}, selector : ThresholdSelectors,
          expected_min_listings : {0, 12}, status : {"active"}]

SpecThresholds == InitCalls(SingleCall, ThresholdMonitors) /\ [][Next]_vars

(***************************************************************************)
(* POST /api/scrape/all: executeScrape for every active row of table       *)
(* platform_monitors, all started before the first await of Promise.all.   *)
(* monitors is the table; call i is the executeScrape of row i.            *)
(***************************************************************************)
TableIds == {1, 2}
BatchSelectors == {<<".foo">>, <<".foo", Comma, Space, ".bar">>, <<"[">>}
TableRows ==
    [url : {SmallSite, FeedSite}, selector : BatchSelectors,
     expected_min_listings : RowExpectedMinValues, status : {"active", "paused"}]

\* .eq('status', 'active'): the ids of the rows the query returns, in order.
ActiveMonitors ==
    SelectSeq([k \in 1..Cardinality(DOMAIN monitors) |-> k],
              LAMBDA k : monitors[k].status = "active")

\* The request scrape sends first.
FirstRequest(url, options) ==
    IF UseProxy(apiKey) THEN ProxyRequest(url, options)
    ELSE DirectRequest(url, options)

\* The entry of results for the monitor of call i (lines 113-139).
BatchEntry(i) ==
    IF epc[i] = "returned"
    THEN LET log == ScrapeLogRow(i, result[i])
         IN  [platform |-> i, success |-> log.success,
              listings_found |-> log.listings_found,
              response_time_ms |-> log.response_time,
              error |-> log.error_message]
    ELSE [platform |-> i, success |-> FALSE, listings_found |-> 0,
          response_time_ms |-> 0, error |-> "insert error"]

\* The request arrives: the handler sends its query (lines 93-96).
ScrapeAll ==
    /\ hpc = "idle"
    /\ hpc' = "querying"
    /\ UNCHANGED <<apiKey, monitors, configs, testing, epc, spc, scrapeCalls,
                   args, requests, proxyError, fetched, evaluation, caught,
                   result, scrapeLogs, platformAlerts, now, startTime, phases,
                   alertInserts, response, params, analysis, retry, quality>>

\* The query answers with an error and no data: 404 (lines 103-105).
QueryFails ==
    /\ hpc = "querying"
    /\ hpc' = "responded"
    /\ response' = [status |-> 404, error |-> "No active monitors found"]
    /\ UNCHANGED <<apiKey, monitors, configs, testing, epc, spc, scrapeCalls,
                   args, requests, proxyError, fetched, evaluation, caught,
                   result, scrapeLogs, platformAlerts, now, startTime, phases,
                   alertInserts, params, analysis, retry, quality>>

\* The query answers with the active rows: 404 when there is none, else
\* monitors.map calls executeScrape on each, which calls scrape, which sends its
\* first request (lines 103-112).
QueryAnswers ==
    /\ hpc = "querying"
    /\ LET active == {ActiveMonitors[k] : k \in 1..Len(ActiveMonitors)}
           first(i) == FirstRequest(monitors[i].url, ServiceOptions)
       IN  IF active = {}
           THEN /\ hpc' = "responded"
                /\ response' = [status |-> 404,
                                error |-> "No active monitors found"]
                /\ UNCHANGED <<epc, spc, scrapeCalls, args, requests,
                               startTime, phases>>
           ELSE /\ hpc' = "running"
                /\ epc' = [i \in DOMAIN epc |->
                              IF i \in active THEN "scraping" ELSE epc[i]]
                /\ scrapeCalls' = [i \in DOMAIN scrapeCalls |->
                              IF i \in active THEN scrapeCalls[i] + 1
                              ELSE scrapeCalls[i]]
                /\ startTime' = [i \in DOMAIN startTime |->
                              IF i \in active THEN now ELSE startTime[i]]
                /\ phases' = [i \in DOMAIN phases |->
                              IF i \in active THEN <<Phase("fetching")>>
                              ELSE phases[i]]
                /\ args' = [i \in DOMAIN args |->
                              IF i \in active
                              THEN [url |-> monitors[i].url,
                                    selector |-> monitors[i].selector,
                                    options |-> ServiceOptions]
                              ELSE args[i]]
                /\ requests' = [i \in DOMAIN requests |->
                              IF i \in active THEN Append(requests[i], first(i))
                              ELSE requests[i]]
                /\ spc' = [i \in DOMAIN spc |->
                              IF i \in active THEN first(i).path ELSE spc[i]]
                /\ UNCHANGED response
    /\ UNCHANGED <<apiKey, monitors, configs, testing, proxyError, fetched,
                   evaluation, caught, result, scrapeLogs, platformAlerts, now,
                   alertInserts, params, analysis, retry, quality>>

\* Mutant: Promise.all over calls that do not catch: one executeScrape that
\* threw rejects the batch, and the handler answers 500 (line 150).
ScrapeAllRespondsAborting ==
    /\ hpc = "running"
    /\ \/ /\ \E k \in 1..Len(ActiveMonitors) : epc[ActiveMonitors[k]] = "threw"
          /\ response' = [status |-> 500, error |-> "insert error"]
       \/ /\ \A k \in 1..Len(ActiveMonitors) :
                 epc[ActiveMonitors[k]] = "returned"
          /\ LET results == [k \in 1..Len(ActiveMonitors) |->
                                BatchEntry(ActiveMonitors[k])]
             IN  response' = [status |-> 200, success |-> TRUE,
                              total |-> Len(results),
                              successful |-> Len(SelectSeq(results,
                                                 LAMBDA r : r.success)),
                              results |-> results]
    /\ hpc' = "responded"
    /\ UNCHANGED <<apiKey, monitors, configs, testing, epc, spc, scrapeCalls,
                   args, requests, proxyError, fetched, evaluation, caught,
                   result, scrapeLogs, platformAlerts, now, startTime, phases,
                   alertInserts, params, analysis, retry, quality>>

\* Every executeScrape has returned or thrown: Promise.all resolves and the
\* handler answers (lines 141-149).
ScrapeAllResponds ==
    /\ hpc = "running"
    /\ \A k \in 1..Len(ActiveMonitors) :
           epc[ActiveMonitors[k]] \in {"returned", "threw"}
    /\ LET results == [k \in 1..Len(ActiveMonitors) |->
                          BatchEntry(ActiveMonitors[k])]
       IN  response' = [status |-> 200, success |-> TRUE,
                        total |-> Len(results),
                        successful |-> Len(SelectSeq(results,
                                           LAMBDA r : r.success)),
                        results |-> results]
    /\ hpc' = "responded"
    /\ UNCHANGED <<apiKey, monitors, configs, testing, epc, spc, scrapeCalls,
                   args, requests, proxyError, fetched, evaluation, caught,
                   result, scrapeLogs, platformAlerts, now, startTime, phases,
                   alertInserts, params, analysis, retry, quality>>

InitAll == InitCalls(TableIds, TableRows)

NextAll ==
    \/ ScrapeAll
    \/ QueryFails
    \/ QueryAnswers
    \/ \E i \in DOMAIN monitors : ProxySucceeds(i)
    \/ \E i \in DOMAIN monitors : ProxyFails(i)
    \/ \E i \in DOMAIN monitors : DirectSucceeds(i)
    \/ \E i \in DOMAIN monitors : DirectFails(i)
    \/ \E i \in DOMAIN monitors : SaveScrapeLog(i)
    \/ \E i \in DOMAIN monitors : InsertSucceeds(i)
    \/ \E i \in DOMAIN monitors : InsertFails(i)
    \/ \E i \in DOMAIN monitors : AlertStored(i)
    \/ \E i \in DOMAIN monitors : AlertRejected(i)
    \/ ScrapeAllResponds

SpecAll == InitAll /\ [][NextAll]_vars

(***************************************************************************)
(* The platform scrapers (KamernetScraper, ParariusScraper): scrapeListings *)
(* calls scrape with the url, selector and options of the ScraperConfig of  *)
(* its class.  Time passes between the steps.                              *)
(***************************************************************************)
ScraperIds == {1}
ConfigHeaders == {"User-Agent", "Accept", "Accept-Language"}
ConfigSelectors == {<<".foo", Comma, Space, ".bar">>, <<"[", Comma, Space, ".foo">>}

\* The values of ScraperConfig.options: timeout and headers are both optional.
\* {} is the function of no property.
EmptyOptions == [k \in {} |-> 0]
ConfigOptions ==
    {EmptyOptions,
     [timeout |-> ConfigTimeout],
     [timeout |-> ConfigTimeout, headers |-> ConfigHeaders],
     [headers |-> ConfigHeaders],
     [timeout |-> 0, headers |-> ConfigHeaders]}

\* ScraperConfig, whose options are optional too.
ScraperConfigs ==
    [url : {SmallSite, FeedSite}, selector : ConfigSelectors]
        \cup [url : {SmallSite, FeedSite}, selector : ConfigSelectors,
              options : ConfigOptions]

\* options: ScrapeOptions = {} (line 36): the default of a parameter left out.
OptionsOrDefault(config) ==
    IF "options" \in DOMAIN config THEN config.options ELSE EmptyOptions

\* scrapeListings() up to its first await: return this.scrape(...).
ScrapeListings(i) ==
    /\ epc[i] = "ready"
    /\ epc' = [epc EXCEPT ![i] = "scraping"]
    /\ scrapeCalls' = [scrapeCalls EXCEPT ![i] = @ + 1]
    /\ Scrape(i, configs[i].url, configs[i].selector, OptionsOrDefault(configs[i]))
    /\ UNCHANGED <<apiKey, monitors, configs, testing, proxyError, fetched,
                   evaluation, caught, result, scrapeLogs, platformAlerts, now,
                   alertInserts, hpc, response, params, analysis, retry,
                   quality>>

\* Time passes: Date.now() returns a later instant.
Tick ==
    /\ now < MaxTime
    /\ now' = now + 1
    /\ UNCHANGED <<apiKey, monitors, configs, testing, epc, spc, scrapeCalls,
                   args, requests, proxyError, fetched, evaluation, caught,
                   result, scrapeLogs, platformAlerts, startTime, phases,
                   alertInserts, hpc, response, params, analysis, retry,
                   quality>>

InitListings ==
    /\ \E envKey \in EnvKeys : apiKey = BaseScraperConstructor("", envKey)
    /\ monitors = [i \in ScraperIds |-> None]
    /\ configs \in [ScraperIds -> ScraperConfigs]
    /\ testing = None
    /\ epc = [i \in ScraperIds |-> "ready"]
    /\ spc = [i \in ScraperIds |-> "idle"]
    /\ scrapeCalls = [i \in ScraperIds |-> 0]
    /\ args = [i \in ScraperIds |-> None]
    /\ requests = [i \in ScraperIds |-> <<>>]
    /\ proxyError = [i \in ScraperIds |-> None]
    /\ fetched = [i \in ScraperIds |-> None]
    /\ evaluation = [i \in ScraperIds |-> None]
    /\ caught = [i \in ScraperIds |-> None]
    /\ result = [i \in ScraperIds |-> None]
    /\ scrapeLogs = <<>>
    /\ platformAlerts = <<>>
    /\ now = 0
    /\ startTime = [i \in ScraperIds |-> 0]
    /\ phases = [i \in ScraperIds |-> <<>>]
    /\ alertInserts = <<>>
    /\ hpc = "idle"
    /\ response = None
    /\ params = None
    /\ analysis = None
    /\ retry = None
    /\ quality = None

\* The steps of the scrapers.
ScraperSteps ==
    \/ \E i \in DOMAIN configs : ScrapeListings(i)
    \/ \E i \in DOMAIN configs : ProxySucceeds(i)
    \/ \E i \in DOMAIN configs : ProxyFails(i)
    \/ \E i \in DOMAIN configs : DirectSucceeds(i)
    \/ \E i \in DOMAIN configs : DirectFails(i)

NextListings == ScraperSteps \/ Tick

SpecListings == InitListings /\ [][NextListings]_vars

\* The scrapers with the clock standing still, where every request is answered
\* or runs into its timeout, which rejects it.
FairListings ==
    /\ InitListings
    /\ [][ScraperSteps]_vars
    /\ \A i \in ScraperIds :
           /\ WF_vars(ProxySucceeds(i) \/ ProxyFails(i))
           /\ WF_vars(DirectSucceeds(i) \/ DirectFails(i))

(***************************************************************************)
(* POST /api/test-selector: counts of the selector it is given and of the   *)
(* common selectors on the page at the url it is given.                    *)
(***************************************************************************)
commonSelectors ==
    << "[data-test-id=\"search-result-item\"]", "[data-test-id*=\"search-result\"]",
       ".search-result", ".object-list-item", "li[class*=\"search-result\"]",
       "div[class*=\"search-result\"]",
       ".listing-search-item", ".property-list-item", "li[class*=\"listing\"]",
       "section[class*=\"property\"]", "[data-testid*=\"listing\"]",
       ".listing-item", ".room-card", "div[class*=\"listing\"]",
       "div[class*=\"room\"]", "[data-testid*=\"listing\"]",
       "[data-testid*=\"room\"]",
       "article[class*=\"listing\"]", "div[data-test-id]", "[class*=\"result\"]",
       "[class*=\"item\"]" >>

CommonSelectorSet == {commonSelectors[k] : k \in 1..Len(commonSelectors)}

\* Where a common selector stands first in the list.
FirstIndex(sel) ==
    CHOOSE k \in 1..Len(commonSelectors) :
        /\ commonSelectors[k] = sel
        /\ \A j \in 1..(k - 1) : commonSelectors[j] # sel

\* The pages of the test site: 0 or 3 .foo elements, 12 .bar elements, and the
\* common selectors standing among the first m of the list match
\* (a * k + b) % 5 elements, k their place in the list, the others none.
TestSite == "https://example.test/search"
MatchShapes == {0, 3, 10, 11, 21}
MatchFactors == 0..4
TestPages ==
    {[type |-> "string", foo |-> f, bar |-> 12,
      matches |-> [sel \in CommonSelectorSet |->
                      IF FirstIndex(sel) <= m
                      THEN (a * FirstIndex(sel) + b) % 5 ELSE 0]] :
        f \in {0, 3}, a \in MatchFactors, b \in MatchFactors, m \in MatchShapes}

\* The bodies of the requests: url and selector, either of which may be empty.
TestUrls == {"", TestSite}
TestSelectors ==
    {<<>>, <<".foo">>, <<".foo", Comma, Space, ".bar">>, <<"[">>,
     <<".foo", Comma, "[">>}

\* $(sel).length for a candidate of the selector or a common selector.
TestCount(html, sel) ==
    IF sel \in CommonSelectorSet THEN html.matches[sel]
    ELSE SelectorCount(html, sel)

\* testedResults and bestTested (lines 210-220), without the sample.
TestedResults(html, selector) ==
    LET selectors == SplitSelectors(selector)
    IN  [k \in 1..Len(selectors) |->
            [selector |-> selectors[k], count |-> TestCount(html, selectors[k])]]

RECURSIVE BestOf(_, _)
BestOf(results, best) ==
    IF results = <<>> THEN best
    ELSE BestOf(Tail(results),
                IF Head(results).count > best.count THEN Head(results) ELSE best)

BestTested(results) == BestOf(results, [selector |-> <<>>, count |-> 0])

\* commonSelectors.map(...).filter(r => r.count > 0) (lines 249-252)
AlternativeResults(html) ==
    SelectSeq([k \in 1..Len(commonSelectors) |->
                  [selector |-> commonSelectors[k],
                   count |-> TestCount(html, commonSelectors[k])]],
              LAMBDA r : r.count > 0)

\* Array.prototype.sort with (a, b) => b.count - a.count: a stable sort, the
\* higher counts first.
RECURSIVE InsertByCount(_, _)
InsertByCount(sorted, r) ==
    IF sorted = <<>> THEN <<r>>
    ELSE IF Head(sorted).count >= r.count
         THEN <<Head(sorted)>> \o InsertByCount(Tail(sorted), r)
         ELSE <<r>> \o sorted

\* Mutant: the results are left in the order of the list.
SortUnsorted(results) == results

RECURSIVE SortByCount(_)
SortByCount(results) ==
    IF results = <<>> THEN <<>>
    ELSE InsertByCount(SortByCount(SubSeq(results, 1, Len(results) - 1)),
                       results[Len(results)])

\* alternativeResults.slice(0, 10)
TopAlternatives(sorted) ==
    SubSeq(sorted, 1, IF Len(sorted) < MaxAlternatives THEN Len(sorted)
                      ELSE MaxAlternatives)

\* The body of the answer (lines 265-279), without sample, length and advice;
\* None stands for null.
TestSelectorAnswer(html, selector) ==
    LET tested == TestedResults(html, selector)
        bestTested == BestTested(tested)
        sorted == SortByCount(AlternativeResults(html))
        bestOverall == IF sorted # <<>> THEN sorted[1]
                       ELSE [selector |-> "none", count |-> 0]
    IN  [status |-> 200, tested |-> selector, testedResults |-> tested,
         bestTested |-> IF bestTested.count > 0 THEN bestTested ELSE None,
         alternatives |-> TopAlternatives(sorted),
         bestOverall |-> IF bestOverall.count > 0 THEN bestOverall ELSE None]

\* The request arrives: 400 when url or selector is missing, else the page is
\* requested (lines 181-202).
TestSelector ==
    /\ hpc = "idle"
    /\ \E url \in TestUrls, selector \in TestSelectors :
           /\ testing' = [url |-> url, selector |-> selector, data |-> None]
           /\ IF url = "" \/ selector = <<>>
              THEN /\ hpc' = "responded"
                   /\ response' = [status |-> 400,
                                   error |-> "Missing required fields: url and selector"]
              ELSE /\ hpc' = "fetching"
                   /\ UNCHANGED response
    /\ UNCHANGED <<apiKey, monitors, configs, epc, spc, scrapeCalls, args,
                   requests, proxyError, fetched, evaluation, caught, result,
                   scrapeLogs, platformAlerts, now, startTime, phases,
                   alertInserts, params, analysis, retry, quality>>

\* The page arrives: $(selector) throws on a selector that does not parse and
\* the catch answers 500; else the counts are answered (lines 204-286).
TestFetchSucceeds ==
    /\ hpc = "fetching"
    /\ \E data \in TestPages :
           /\ testing' = [testing EXCEPT !.data = data]
           /\ response' = IF ValidSelector(testing.selector)
                          THEN TestSelectorAnswer(data, testing.selector)
                          ELSE [status |-> 500,
                                error |-> SelectorSyntaxError.message]
    /\ hpc' = "responded"
    /\ UNCHANGED <<apiKey, monitors, configs, epc, spc, scrapeCalls, args,
                   requests, proxyError, fetched, evaluation, caught, result,
                   scrapeLogs, platformAlerts, now, startTime, phases,
                   alertInserts, params, analysis, retry, quality>>

\* The request for the page rejects: the catch answers 500 (lines 280-285).
TestFetchFails ==
    /\ hpc = "fetching"
    /\ \E kind \in FetchFailures :
           response' = [status |-> 500,
                        error |-> ErrorMessage(FetchError(kind, "direct",
                                                          DefaultTimeout))]
    /\ hpc' = "responded"
    /\ UNCHANGED <<apiKey, monitors, configs, testing, epc, spc, scrapeCalls,
                   args, requests, proxyError, fetched, evaluation, caught,
                   result, scrapeLogs, platformAlerts, now, startTime, phases,
                   alertInserts, params, analysis, retry, quality>>

InitTestSelector == InitCalls({}, {})

NextTestSelector ==
    \/ TestSelector
    \/ TestFetchSucceeds
    \/ TestFetchFails

SpecTestSelector == InitTestSelector /\ [][NextTestSelector]_vars

(***************************************************************************)
(* POST /api/scrape/:platformId, from the request on: the handler looks    *)
(* the monitor up among the active rows of the table and calls             *)
(* executeScrape on it.  monitors is the table; call i is the              *)
(* executeScrape of row i, whose id is i.                                  *)
(***************************************************************************)
PlatformRows ==
    [url : {SmallSite, FeedSite}, selector : {<<".foo">>},
     expected_min_listings : RowExpectedMinValues,
     status : {"active", "paused", "error"}]

\* A value of req.params.platformId that is the id of no row.
UnknownId == 0

\* Mutant: the monitor is looked up among all rows of the table.
FindMonitorOfAnyStatus(platformId) ==
    IF platformId \in DOMAIN monitors THEN platformId ELSE UnknownId

\* monitors.find(m => m.id === platformId) on what getActiveMonitors returned:
\* the id of the row found, UnknownId for undefined.
FindMonitor(platformId) ==
    IF \E k \in 1..Len(ActiveMonitors) : ActiveMonitors[k] = platformId
    THEN platformId ELSE UnknownId

\* The request arrives: the handler awaits getActiveMonitors (line 162).
ScrapePlatform ==
    /\ hpc = "idle"
    /\ \E platformId \in TableIds \cup {UnknownId} : params' = [platformId |-> platformId]
    /\ hpc' = "querying"
    /\ UNCHANGED <<apiKey, monitors, configs, testing, epc, spc, scrapeCalls,
                   args, requests, proxyError, fetched, evaluation, caught,
                   result, scrapeLogs, platformAlerts, now, startTime, phases,
                   alertInserts, response, analysis, retry, quality>>

\* The query answers with an error: getActiveMonitors throws it and the catch
\* of the handler answers 500 (lines 171-174).
PlatformQueryFails ==
    /\ hpc = "querying"
    /\ hpc' = "responded"
    /\ response' = [status |-> 500, error |-> "Failed to execute scrape"]
    /\ UNCHANGED <<apiKey, monitors, configs, testing, epc, spc, scrapeCalls,
                   args, requests, proxyError, fetched, evaluation, caught,
                   result, scrapeLogs, platformAlerts, now, startTime, phases,
                   alertInserts, params, analysis, retry, quality>>

\* The query answers with the active rows: 404 when none has the id, else
\* executeScrape of the row found, which calls scrape, which sends its first
\* request (lines 163-169).
PlatformQueryAnswers ==
    /\ hpc = "querying"
    /\ LET i == FindMonitor(params.platformId)
       IN  IF i = UnknownId
           THEN /\ hpc' = "responded"
                /\ response' = [status |-> 404, error |-> "Monitor not found"]
                /\ UNCHANGED <<epc, spc, scrapeCalls, args, requests,
                               startTime, phases>>
           ELSE /\ hpc' = "running"
                /\ epc' = [epc EXCEPT ![i] = "scraping"]
                /\ scrapeCalls' = [scrapeCalls EXCEPT ![i] = @ + 1]
                /\ Scrape(i, monitors[i].url, monitors[i].selector,
                          ServiceOptions)
                /\ UNCHANGED response
    /\ UNCHANGED <<apiKey, monitors, configs, testing, proxyError, fetched,
                   evaluation, caught, result, scrapeLogs, platformAlerts, now,
                   alertInserts, params, analysis, retry, quality>>

\* executeScrape has returned the log, which the handler sends (line 170), or
\* has thrown, which the catch of the handler answers with 500.
ScrapePlatformResponds ==
    /\ hpc = "running"
    /\ LET i == params.platformId
       IN  /\ epc[i] \in {"returned", "threw"}
           /\ response' =
                  IF epc[i] = "returned"
                  THEN [status |-> 200, log |-> ScrapeLogRow(i, result[i])]
                  ELSE [status |-> 500, error |-> "Failed to execute scrape"]
    /\ hpc' = "responded"
    /\ UNCHANGED <<apiKey, monitors, configs, testing, epc, spc, scrapeCalls,
                   args, requests, proxyError, fetched, evaluation, caught,
                   result, scrapeLogs, platformAlerts, now, startTime, phases,
                   alertInserts, params, analysis, retry, quality>>

NextPlatform ==
    \/ ScrapePlatform
    \/ PlatformQueryFails
    \/ PlatformQueryAnswers
    \/ \E i \in DOMAIN monitors : ProxySucceeds(i)
    \/ \E i \in DOMAIN monitors : ProxyFails(i)
    \/ \E i \in DOMAIN monitors : DirectSucceeds(i)
    \/ \E i \in DOMAIN monitors : DirectFails(i)
    \/ \E i \in DOMAIN monitors : SaveScrapeLog(i)
    \/ \E i \in DOMAIN monitors : InsertSucceeds(i)
    \/ \E i \in DOMAIN monitors : InsertFails(i)
    \/ \E i \in DOMAIN monitors : AlertStored(i)
    \/ \E i \in DOMAIN monitors : AlertRejected(i)
    \/ ScrapePlatformResponds

SpecPlatform == InitCalls(TableIds, PlatformRows) /\ [][NextPlatform]_vars

(***************************************************************************)
(* POST /api/competitor-analysis/:city.  A page is the sequence of the     *)
(* numbers of elements the candidates of the selector match on it.         *)
(***************************************************************************)
Cities == {"amsterdam", "Rotterdam", "UTRECHT", "paris", "Berlin"}

\* city.toLowerCase()
toLowerCase(city) ==
    CASE city = "Rotterdam" -> "rotterdam"
      [] city = "UTRECHT" -> "utrecht"
      [] city = "Berlin" -> "berlin"
      [] OTHER -> city

cityUrls ==
    [c \in {"amsterdam", "rotterdam", "utrecht"} |->
        [pararius |-> "https://www.pararius.com/apartments/" \o c,
         funda |-> "https://www.funda.nl/huur/" \o c \o "/",
         huurscout |-> "https://huurscout.nl/" \o c]]

\* cityUrls[cityLower] || cityUrls.amsterdam (line 349)
CityUrlsOrDefault(cityLower) ==
    IF cityLower \in DOMAIN cityUrls THEN cityUrls[cityLower]
    ELSE cityUrls["amsterdam"]

\* The loop of lines 314-320 from candidate k on, with maxCount so far.
RECURSIVE MaxCountFrom(_, _, _)
MaxCountFrom(page, k, maxCount) ==
    IF k > Len(page) THEN maxCount
    ELSE MaxCountFrom(page, k + 1,
                      IF page[k] > maxCount THEN page[k] ELSE maxCount)

\* What scrapeUrl returns: for a page that was delivered, and for a request
\* that failed.
UrlResults ==
    {[count |-> MaxCountFrom(page, 1, 0), success |-> TRUE] :
        page \in {<<0, 0>>, <<3, 12>>, <<12, 3>>}}
    \cup {[count |-> 0, success |-> FALSE]}

\* Math.round(x * 100 * 10) / 10 for x = part / whole, in tenths.
PercentTenths(part, whole) == (2000 * part + whole) \div (2 * whole)

\* The result of lines 408-430; its property status is field verdict here, status
\* being the status code of the response.
AnalysisResult(a, huurscoutCoverage) ==
    LET realListings == a.pararius.count + a.funda.count
        uprentCoverage == a.uprentCoverage
        Maximum(x, y) == IF x > y THEN x ELSE y
        Distance(x, y) == IF x > y THEN x - y ELSE y - x
    IN  [status |-> 200,
         city |-> a.cityLower,
         realListings |-> realListings,
         platforms |-> [pararius |-> a.pararius.count, funda |-> a.funda.count],
         uprentCoverage |-> uprentCoverage,
         uprentPercent |-> IF realListings > 0
                           THEN PercentTenths(uprentCoverage, realListings)
                           ELSE 0,
         huurscoutCoverage |-> huurscoutCoverage,
         huurscoutPercent |-> IF realListings > 0
                              THEN PercentTenths(huurscoutCoverage, realListings)
                              ELSE 0,
         uprentAdvantage |-> uprentCoverage > huurscoutCoverage,
         verdict |-> IF uprentCoverage > huurscoutCoverage THEN "DOMINATE"
                     ELSE IF uprentCoverage = huurscoutCoverage
                          THEN "PRICE_WAR" ELSE "BEHIND",
         gap |-> Distance(uprentCoverage, huurscoutCoverage),
         gapPercent |-> PercentTenths(
                            Distance(uprentCoverage, huurscoutCoverage),
                            Maximum(Maximum(uprentCoverage, huurscoutCoverage),
                                    1))]

\* The request arrives: the handler picks the urls and, unless it rejects the
\* city, starts scrapeUrl for Pararius and for Funda, each of which sends its
\* request (lines 292-369).
CompetitorAnalysis ==
    /\ hpc = "idle"
    /\ \E city \in Cities :
           LET cityLower == toLowerCase(city)
               urls == CityUrlsOrDefault(cityLower)
           IN  /\ params' = [city |-> city]
               /\ IF urls = Undefined
                  THEN /\ hpc' = "responded"
                       /\ response' =
                              [status |-> 400,
                               error |-> "City \"" \o city \o "\" not supported. "
                                         \o "Supported cities: amsterdam, "
                                         \o "rotterdam, utrecht"]
                       /\ UNCHANGED analysis
                  ELSE /\ hpc' = "scraping"
                       /\ analysis' =
                              [cityLower |-> cityLower, urls |-> urls,
                               requests |-> <<urls.pararius, urls.funda>>,
                               pararius |-> None, funda |-> None,
                               uprentCoverage |-> 0]
                       /\ UNCHANGED response
    /\ UNCHANGED <<apiKey, monitors, configs, testing, epc, spc, scrapeCalls,
                   args, requests, proxyError, fetched, evaluation, caught,
                   result, scrapeLogs, platformAlerts, now, startTime, phases,
                   alertInserts, retry, quality>>

\* One of the two requests of Promise.all is answered or fails; once both
\* scrapeUrl have returned the handler queries its monitors (lines 374-378).
RealPlatformAnswers ==
    /\ hpc = "scraping"
    /\ \E site \in {"pararius", "funda"}, r \in UrlResults :
           /\ analysis[site] = None
           /\ analysis' = [analysis EXCEPT ![site] = r]
           /\ hpc' = IF analysis'.pararius # None /\ analysis'.funda # None
                     THEN "monitors" ELSE "scraping"
    /\ UNCHANGED <<apiKey, monitors, configs, testing, epc, spc, scrapeCalls,
                   args, requests, proxyError, fetched, evaluation, caught,
                   result, scrapeLogs, platformAlerts, now, startTime, phases,
                   alertInserts, response, params, retry, quality>>

\* The query answers with no monitor, or with none at all: the handler calls
\* scrapeUrl for HuurScout (lines 380-403).
NoUprentMonitors ==
    /\ hpc = "monitors"
    /\ hpc' = "huurscout"
    /\ analysis' = [analysis EXCEPT
                        !.requests = Append(@, analysis.urls.huurscout)]
    /\ UNCHANGED <<apiKey, monitors, configs, testing, epc, spc, scrapeCalls,
                   args, requests, proxyError, fetched, evaluation, caught,
                   result, scrapeLogs, platformAlerts, now, startTime, phases,
                   alertInserts, response, params, retry, quality>>

\* The query answers with a monitor: the handler asks for its latest successful
\* scrape (lines 381-393).
UprentMonitorFound ==
    /\ hpc = "monitors"
    /\ hpc' = "latest"
    /\ UNCHANGED <<apiKey, monitors, configs, testing, epc, spc, scrapeCalls,
                   args, requests, proxyError, fetched, evaluation, caught,
                   result, scrapeLogs, platformAlerts, now, startTime, phases,
                   alertInserts, response, params, analysis, retry, quality>>

\* The latest scrape answers, with no row or with a row: latestScrape
\* ?.listings_found || 0 is the coverage, and the handler calls scrapeUrl for
\* HuurScout (lines 392-403).
LatestScrapeAnswers ==
    /\ hpc = "latest"
    /\ \E found \in {0, 12} :
           analysis' = [analysis EXCEPT
                            !.uprentCoverage = found,
                            !.requests = Append(@, analysis.urls.huurscout)]
    /\ hpc' = "huurscout"
    /\ UNCHANGED <<apiKey, monitors, configs, testing, epc, spc, scrapeCalls,
                   args, requests, proxyError, fetched, evaluation, caught,
                   result, scrapeLogs, platformAlerts, now, startTime, phases,
                   alertInserts, response, params, retry, quality>>

\* scrapeUrl for HuurScout returns: the handler answers (lines 405-434).
HuurscoutAnswers ==
    /\ hpc = "huurscout"
    /\ \E r \in UrlResults : response' = AnalysisResult(analysis, r.count)
    /\ hpc' = "responded"
    /\ UNCHANGED <<apiKey, monitors, configs, testing, epc, spc, scrapeCalls,
                   args, requests, proxyError, fetched, evaluation, caught,
                   result, scrapeLogs, platformAlerts, now, startTime, phases,
                   alertInserts, params, analysis, retry, quality>>

NextCompetitor ==
    \/ CompetitorAnalysis
    \/ RealPlatformAnswers
    \/ NoUprentMonitors
    \/ UprentMonitorFound
    \/ LatestScrapeAnswers
    \/ HuurscoutAnswers

SpecCompetitor == InitCalls({}, {}) /\ [][NextCompetitor]_vars

(***************************************************************************)
(* retryWithBackoff(fn, maxRetries, initialDelay) of the shared package.   *)
(* retry.events is what the call did, in order: it called fn, fn resolved  *)
(* or rejected, it went to sleep for some milliseconds.                    *)
(***************************************************************************)
RetryCalls ==
    [maxRetries : 0..MaxRetries, initialDelay : {100, DefaultInitialDelay},
     pc : {"ready"},
     i : {0}, lastError : {Undefined}, events : {<<>>}, settled : {None}]

\* Mutant: the loop runs while i <= maxRetries.
LoopContinuesInclusive(i, maxRetries) == i <= maxRetries

\* i < maxRetries (line 518)
LoopContinues(i, maxRetries) == i < maxRetries

\* i < maxRetries - 1 (line 523)
SleepsAfterFailure(i, maxRetries) == i < maxRetries - 1

\* initialDelay * Math.pow(2, i) (line 524)
BackoffDelay(initialDelay, i) == initialDelay * 2^i

\* The head of the loop with counter i: the next call of fn, or throw lastError
\* (line 530) once the loop is over.
LoopHead(r, i) ==
    IF LoopContinues(i, r.maxRetries)
    THEN [r EXCEPT !.i = i, !.pc = "calling",
                   !.events = Append(@, [type |-> "call", attempt |-> i])]
    ELSE [r EXCEPT !.i = i, !.pc = "rejected",
                   !.settled = [threw |-> TRUE, error |-> r.lastError]]

\* retryWithBackoff is called: it runs up to its first await.
RetryWithBackoff ==
    /\ retry # None /\ retry.pc = "ready"
    /\ retry' = LoopHead(retry, 0)
    /\ UNCHANGED <<apiKey, monitors, configs, testing, epc, spc, scrapeCalls,
                   args, requests, proxyError, fetched, evaluation, caught,
                   result, scrapeLogs, platformAlerts, now, startTime, phases,
                   alertInserts, hpc, response, params, analysis, quality>>

\* The promise of fn resolves: return await fn() (line 520).
FnResolves ==
    /\ retry # None /\ retry.pc = "calling"
    /\ \E value \in {"v1", "v2"} :
           retry' = [retry EXCEPT
                         !.pc = "returned",
                         !.events = Append(@, [type |-> "resolve",
                                               value |-> value]),
                         !.settled = [threw |-> FALSE, value |-> value]]
    /\ UNCHANGED <<apiKey, monitors, configs, testing, epc, spc, scrapeCalls,
                   args, requests, proxyError, fetched, evaluation, caught,
                   result, scrapeLogs, platformAlerts, now, startTime, phases,
                   alertInserts, hpc, response, params, analysis, quality>>

\* The promise of fn rejects: the catch of lines 521-527, and where it does not
\* sleep the next turn of the loop.
FnRejects ==
    /\ retry # None /\ retry.pc = "calling"
    /\ \E error \in {[message |-> "e1"], [message |-> "e2"]} :
           LET failed == [retry EXCEPT
                              !.lastError = error,
                              !.events = Append(@, [type |-> "reject",
                                                    error |-> error])]
           IN  retry' =
                   IF SleepsAfterFailure(retry.i, retry.maxRetries)
                   THEN [failed EXCEPT
                             !.pc = "sleeping",
                             !.events = Append(@,
                                 [type |-> "sleep",
                                  ms |-> BackoffDelay(retry.initialDelay,
                                                      retry.i)])]
                   ELSE LoopHead(failed, retry.i + 1)
    /\ UNCHANGED <<apiKey, monitors, configs, testing, epc, spc, scrapeCalls,
                   args, requests, proxyError, fetched, evaluation, caught,
                   result, scrapeLogs, platformAlerts, now, startTime, phases,
                   alertInserts, hpc, response, params, analysis, quality>>

\* The timer of sleep fires: the next turn of the loop.
SleepEnds ==
    /\ retry # None /\ retry.pc = "sleeping"
    /\ retry' = LoopHead(retry, retry.i + 1)
    /\ UNCHANGED <<apiKey, monitors, configs, testing, epc, spc, scrapeCalls,
                   args, requests, proxyError, fetched, evaluation, caught,
                   result, scrapeLogs, platformAlerts, now, startTime, phases,
                   alertInserts, hpc, response, params, analysis, quality>>

NextRetry == RetryWithBackoff \/ FnResolves \/ FnRejects \/ SleepEnds

SpecRetry ==
    /\ InitEngine({}, {})
    /\ retry \in RetryCalls
    /\ quality = None
    /\ [][NextRetry]_vars

(***************************************************************************)
(* calculateQualityScore(platformId) of the analyzer.  A number of the     *)
(* function is NaN, Infinity, or the fraction n / d with d > 0.  Infinity  *)
(* arises only as avgListings / 0 and meets only the product with 100 and  *)
(* Math.min; the other operators are defined on NaN and on fractions.      *)
(***************************************************************************)
NaN == [nan |-> TRUE]
Infinity == [inf |-> TRUE]
RECURSIVE GCD(_, _)
GCD(a, b) == IF b = 0 THEN a ELSE GCD(b, a % b)

\* n / d in lowest terms, for d > 0.
Fraction(n, d) ==
    LET g == GCD(IF n < 0 THEN -n ELSE n, d)
    IN  [n |-> n \div g, d |-> d \div g]
Number(n) == Fraction(n, 1)
Less(x, y) == x.n * y.d < y.n * x.d

Plus(x, y) ==
    IF x = NaN \/ y = NaN THEN NaN
    ELSE Fraction(x.n * y.d + y.n * x.d, x.d * y.d)

Minus(x, y) ==
    IF x = NaN \/ y = NaN THEN NaN
    ELSE Fraction(x.n * y.d - y.n * x.d, x.d * y.d)

\* x * y, for y > 0 where x is Infinity.
Times(x, y) ==
    IF x = NaN \/ y = NaN THEN NaN
    ELSE IF x = Infinity THEN Infinity
    ELSE Fraction(x.n * y.n, x.d * y.d)

\* x / y for x >= 0: NaN for y undefined and for 0 / 0, Infinity for x / 0.
Divide(x, y) ==
    IF x = NaN \/ y = NaN \/ y = Undefined THEN NaN
    ELSE IF y.n = 0 THEN (IF x.n = 0 THEN NaN ELSE Infinity)
    ELSE Fraction(x.n * y.d, x.d * y.n)

\* Math.min and Math.max: NaN when an argument is NaN.
MathMin(x, y) ==
    IF x = NaN \/ y = NaN THEN NaN
    ELSE IF x = Infinity THEN y
    ELSE IF Less(y, x) THEN y ELSE x

MathMax(x, y) ==
    IF x = NaN \/ y = NaN THEN NaN
    ELSE IF Less(x, y) THEN y ELSE x

\* Math.round: the nearest integer, halves upwards; NaN for NaN.
MathRound(x) ==
    IF x = NaN THEN NaN ELSE Number((2 * x.n + x.d) \div (2 * x.d))

\* reduce((sum, x) => sum + x, 0) over the numbers taken from the logs.
RECURSIVE Reduce(_)
Reduce(values) ==
    IF values = <<>> THEN 0 ELSE Head(values) + Reduce(Tail(values))

\* Lines 47-75 for a monitor and logs that are not empty.  The weights are the
\* fractions 4/10, 3/10, 2/10 and 1/10.
QualityScore(monitor, logs) ==
    LET totalScrapes == Len(logs)
        successfulScrapes == Len(SelectSeq(logs, LAMBDA log : log.success))
        successRate == Fraction(successfulScrapes * 100, totalScrapes)
        listings == Reduce([k \in 1..Len(logs) |-> logs[k].listings_found])
        avgListings == Fraction(listings, totalScrapes)
        \* monitor.expectedMinListings: undefined on an object that has no
        \* property of that name.
        expectedMinListings ==
            IF "expectedMinListings" \in DOMAIN monitor
            THEN Number(monitor.expectedMinListings) ELSE Undefined
        listingsScore ==
            MathMin(Times(Divide(avgListings, expectedMinListings),
                          Number(100)),
                    Number(100))
        \* diff = (listings_found * totalScrapes - listings) / totalScrapes
        squares == Reduce([k \in 1..Len(logs) |->
                       (logs[k].listings_found * totalScrapes - listings)
                       * (logs[k].listings_found * totalScrapes - listings)])
        variance == Fraction(squares, totalScrapes * totalScrapes * totalScrapes)
        consistencyScore ==
            MathMax(Minus(Number(100),
                          Times(Divide(variance, avgListings), Number(100))),
                    Number(0))
        avgResponseTime ==
            Fraction(Reduce([k \in 1..Len(logs) |-> logs[k].response_time]),
                     totalScrapes)
        responseTimeScore ==
            MathMax(Minus(Number(100),
                          Times(Divide(avgResponseTime, Number(30000)),
                                Number(100))),
                    Number(0))
        finalScore ==
            Plus(Plus(Times(successRate, Fraction(4, 10)),
                      Times(listingsScore, Fraction(3, 10))),
                 Plus(Times(consistencyScore, Fraction(2, 10)),
                      Times(responseTimeScore, Fraction(1, 10))))
    IN  MathRound(MathMax(Number(0), MathMin(Number(100), finalScore)))

\* The rows of platform_monitors .select('*').single() can answer with, and
\* the lists of rows of scrape_logs of the last 24 hours; response_time 0
\* stands for null as well, which log.response_time || 0 turns into 0.
QualityMonitors == [expected_min_listings : {0, 10}]
LogLists ==
    UNION {[1..n -> [success : BOOLEAN, listings_found : {0, 12},
                     response_time : {0, 1500}]] : n \in 0..MaxLogs}

\* calculateQualityScore is called: it awaits the monitor (lines 17-21).
CalculateQualityScore ==
    /\ quality.pc = "ready"
    /\ quality' = [quality EXCEPT !.pc = "monitor"]
    /\ UNCHANGED <<apiKey, monitors, configs, testing, epc, spc, scrapeCalls,
                   args, requests, proxyError, fetched, evaluation, caught,
                   result, scrapeLogs, platformAlerts, now, startTime, phases,
                   alertInserts, hpc, response, params, analysis, retry>>

\* The monitor is not found: the throw of line 24 is caught at line 75.
MonitorNotFound ==
    /\ quality.pc = "monitor"
    /\ quality' = [quality EXCEPT !.pc = "returned", !.score = Number(0)]
    /\ UNCHANGED <<apiKey, monitors, configs, testing, epc, spc, scrapeCalls,
                   args, requests, proxyError, fetched, evaluation, caught,
                   result, scrapeLogs, platformAlerts, now, startTime, phases,
                   alertInserts, hpc, response, params, analysis, retry>>

\* The monitor is found: the function awaits the logs (lines 27-36).
MonitorFound ==
    /\ quality.pc = "monitor"
    /\ \E monitor \in QualityMonitors :
           quality' = [quality EXCEPT !.pc = "logs", !.monitor = monitor]
    /\ UNCHANGED <<apiKey, monitors, configs, testing, epc, spc, scrapeCalls,
                   args, requests, proxyError, fetched, evaluation, caught,
                   result, scrapeLogs, platformAlerts, now, startTime, phases,
                   alertInserts, hpc, response, params, analysis, retry>>

\* The query for the logs fails: the throw of line 39 is caught at line 75.
LogsQueryFails ==
    /\ quality.pc = "logs"
    /\ quality' = [quality EXCEPT !.pc = "returned", !.score = Number(0)]
    /\ UNCHANGED <<apiKey, monitors, configs, testing, epc, spc, scrapeCalls,
                   args, requests, proxyError, fetched, evaluation, caught,
                   result, scrapeLogs, platformAlerts, now, startTime, phases,
                   alertInserts, hpc, response, params, analysis, retry>>

\* The logs arrive: 0 for none (line 43), else the score of lines 47-74.
LogsFound ==
    /\ quality.pc = "logs"
    /\ \E logs \in LogLists :
           quality' = [quality EXCEPT
                           !.pc = "returned",
                           !.logs = logs,
                           !.score = IF Len(logs) = 0 THEN Number(0)
                                     ELSE QualityScore(quality.monitor, logs)]
    /\ UNCHANGED <<apiKey, monitors, configs, testing, epc, spc, scrapeCalls,
                   args, requests, proxyError, fetched, evaluation, caught,
                   result, scrapeLogs, platformAlerts, now, startTime, phases,
                   alertInserts, hpc, response, params, analysis, retry>>

NextQuality ==
    \/ CalculateQualityScore
    \/ MonitorNotFound
    \/ MonitorFound
    \/ LogsQueryFails
    \/ LogsFound

SpecQuality ==
    /\ InitEngine({}, {})
    /\ retry = None
    /\ quality = [pc |-> "ready", monitor |-> None, logs |-> <<>>,
                  score |-> None]
    /\ [][NextQuality]_vars

(***************************************************************************)
(* Properties.                                                             *)
(***************************************************************************)
Calls == DOMAIN monitors
Resolved(i) == spc[i] = "resolved"
FetchedPage(i) == fetched[i] # None /\ fetched[i].type = "string"
Evaluated(i) == Resolved(i) /\ evaluation[i] # None
RequestsOn(i, path) == SelectSeq(requests[i], LAMBDA r : r.path = path)

\* The candidates as they stand in the selector string: candidate n is the text
\* between comma n-1 and comma n, without the spaces around it.
CommaPositions(s) == {k \in 1..Len(s) : s[k] = Comma}
NthComma(s, n) ==
    CHOOSE j \in CommaPositions(s) :
        Cardinality({l \in CommaPositions(s) : l < j}) = n - 1
Piece(s, n) ==
    LET first == IF n = 1 THEN 1 ELSE NthComma(s, n - 1) + 1
        last == IF n = Cardinality(CommaPositions(s)) + 1
                THEN Len(s) ELSE NthComma(s, n) - 1
    IN  SubSeq(s, first, last)
StripSpaces(t) ==
    LET inked == {k \in 1..Len(t) : t[k] # Space}
    IN  IF inked = {} THEN <<>>
        ELSE SubSeq(t, CHOOSE k \in inked : \A l \in inked : k <= l,
                       CHOOSE k \in inked : \A l \in inked : k >= l)
NumCandidates(i) == Cardinality(CommaPositions(args[i].selector)) + 1
Candidate(i, n) == StripSpaces(Piece(args[i].selector, n))
CountOf(i, n) == SelectorCount(fetched[i], Candidate(i, n))

IsScrapeResult(r) ==
    /\ DOMAIN r \in {{"success", "listingsFound", "htmlHash", "responseTime"},
                     {"success", "listingsFound", "htmlHash", "responseTime",
                      "error"}}
    /\ r.success \in BOOLEAN
    /\ r.listingsFound \in Nat

\* Something failed in invocation i: no request delivered a body, the body could
\* not be hashed, or a selector could not be evaluated.
SomethingFailed(i) ==
    \/ fetched[i] = None
    \/ fetched[i].type # "string"
    \/ evaluation[i] # None /\ evaluation[i].threw

\* C1: scrape never rejects.  Whatever the proxy request, the direct request,
\* hashing and selector evaluation do, the promise resolves to a ScrapeResult,
\* and an invocation in which something failed resolves to success = false.
ScrapeNeverRejects ==
    \A i \in Calls :
        /\ spc[i] \in {"idle", "proxy", "direct", "resolved"}
        /\ Resolved(i) =>
               /\ IsScrapeResult(result[i])
               /\ SomethingFailed(i) => result[i].success = FALSE

\* Witness of C1: an invocation resolved although evaluating a selector threw.
SelectorThrewAndResolved ==
    \E i \in Calls :
        /\ Resolved(i)
        /\ evaluation[i] # None /\ evaluation[i].threw
        /\ result[i].success = FALSE

\* C2: the outcome invariant.  A result with success = false has listingsFound = 0
\* and htmlHash = ""; a result with success = true has no error field.
OutcomeInvariant ==
    \A i \in Calls :
        Resolved(i) =>
            /\ result[i].success = FALSE =>
                   result[i].listingsFound = 0 /\ result[i].htmlHash = ""
            /\ result[i].success = TRUE => "error" \notin DOMAIN result[i]

\* Witness of C2: a failed result of an invocation whose loop had already counted
\* listings on a fetched page.
FailedAfterCounting ==
    \E i \in Calls :
        /\ Resolved(i)
        /\ result[i].success = FALSE
        /\ evaluation[i] # None /\ evaluation[i].listingsFound > 0

\* The proxy request of invocation i failed and its direct request answered 2xx.
FellBackAndFetched(i) ==
    /\ Resolved(i)
    /\ UseProxy(apiKey)
    /\ proxyError[i] # None
    /\ fetched[i] # None

AllFetchesFailed ==
    \A i \in Calls :
        Resolved(i) /\ fetched[i] = None =>
            /\ result[i].success = FALSE
            /\ result[i].listingsFound = 0
            /\ result[i].htmlHash = ""
            /\ "error" \in DOMAIN result[i]
            /\ result[i].error # ""

\* Witness of C4: both the proxy request and the direct request failed, the
\* direct one with something that is no Error.
BothPathsFailed ==
    \E i \in Calls :
        /\ Resolved(i) /\ fetched[i] = None
        /\ proxyError[i] # None
        /\ Len(requests[i]) = 2
        /\ ~caught[i].isError

\* C5: path selection.  Once scrape has been called, a proxy request has been
\* issued exactly if a key is configured, and a direct request has been issued
\* exactly if no key is configured or the proxy request failed; a proxy request
\* that succeeded is followed by no direct request.
PathSelection ==
    \A i \in Calls :
        spc[i] # "idle" =>
            /\ RequestsOn(i, "proxy") # <<>> <=> apiKey # ""
            /\ RequestsOn(i, "direct") # <<>> <=>
                   (apiKey = "" \/ proxyError[i] # None)
            /\ Resolved(i) /\ proxyError[i] = None /\ RequestsOn(i, "proxy") # <<>> =>
                   RequestsOn(i, "direct") = <<>>

\* Witness of C5: with a key configured the proxy delivered the page and the
\* invocation resolved without a direct request.
ProxyAloneDelivered ==
    \E i \in Calls :
        /\ Resolved(i) /\ apiKey # ""
        /\ FetchedPage(i)
        /\ proxyError[i] = None
        /\ Len(requests[i]) = 1 /\ requests[i][1].path = "proxy"

\* C6: an invocation issues at most one proxy request and at most one direct
\* request, the proxy request first, so at most two fetches; and an executeScrape
\* call calls scrape exactly once, whatever the outcome.
NoRetries ==
    \A i \in Calls :
        /\ Len(RequestsOn(i, "proxy")) <= 1
        /\ Len(RequestsOn(i, "direct")) <= 1
        /\ Len(requests[i]) <= 2
        /\ Len(requests[i]) = 2 =>
               requests[i][1].path = "proxy" /\ requests[i][2].path = "direct"
        /\ scrapeCalls[i] = IF epc[i] = "ready" THEN 0 ELSE 1

\* Witness of C6: an executeScrape call returned after a scrape that failed on
\* both paths, having called scrape once.
ReturnedAfterFailedScrape ==
    \E i \in Calls :
        /\ epc[i] = "returned"
        /\ result[i].success = FALSE
        /\ Len(requests[i]) = 2
        /\ scrapeCalls[i] = 1

\* C7: a fetched page on which every candidate matches 0 elements gives
\* success = true, listingsFound = 0 and a non-empty htmlHash.
ZeroMatchesIsSuccess ==
    \A i \in Calls :
        (/\ Resolved(i) /\ FetchedPage(i)
         /\ \A n \in 1..NumCandidates(i) :
                ValidSelector(Candidate(i, n)) /\ CountOf(i, n) = 0) =>
            /\ result[i].success = TRUE
            /\ result[i].listingsFound = 0
            /\ result[i].htmlHash # ""
            /\ "error" \notin DOMAIN result[i]

\* Witness of C7: a page that has elements, and two or more candidates none of
\* which matches any of them.
NothingFoundOnFullPage ==
    \E i \in Calls :
        /\ Resolved(i) /\ FetchedPage(i)
        /\ fetched[i].foo > 0
        /\ NumCandidates(i) >= 2
        /\ \A n \in 1..NumCandidates(i) :
               ValidSelector(Candidate(i, n)) /\ CountOf(i, n) = 0
        /\ result[i].success = TRUE

RECURSIVE ToleratedListings(_, _, _, _)
ToleratedListings(i, n, k, best) ==
    IF k > n THEN best
    ELSE LET count == IF ValidSelector(Candidate(i, k)) THEN CountOf(i, k) ELSE 0
         IN  IF count >= ConfidenceThreshold THEN count
             ELSE ToleratedListings(i, n, k + 1, IF count > best THEN count ELSE best)

\* C9: a candidate that is no valid selector is treated as 0 matches.  On a
\* fetched page the scrape is a success, its listingsFound is the count of the
\* best valid candidate, and the candidates after the invalid one are evaluated.
InvalidSelectorTolerated ==
    \A i \in Calls :
        Resolved(i) /\ FetchedPage(i) =>
            /\ result[i].success = TRUE
            /\ result[i].listingsFound =
                   ToleratedListings(i, NumCandidates(i), 1, 0)
            /\ \A k \in 1..Len(evaluation[i].evaluated) :
                   ~ValidSelector(Candidate(i, k)) /\ k < NumCandidates(i) =>
                       Len(evaluation[i].evaluated) > k

\* C10: when every candidate's count is below 10 and some candidate matches,
\* every candidate is evaluated, listingsFound is the greatest count and the
\* selector used is the earliest candidate with that count.
BestBelowThreshold ==
    \A i \in Calls :
        (/\ Evaluated(i)
         /\ \A k \in 1..NumCandidates(i) :
                ValidSelector(Candidate(i, k)) /\ CountOf(i, k) < ConfidenceThreshold
         /\ \E k \in 1..NumCandidates(i) : CountOf(i, k) > 0) =>
            LET all == 1..NumCandidates(i)
                best == CHOOSE k \in all :
                            /\ \A l \in all : CountOf(i, l) <= CountOf(i, k)
                            /\ \A l \in all : CountOf(i, l) = CountOf(i, k) => k <= l
            IN  /\ Len(evaluation[i].evaluated) = NumCandidates(i)
                /\ result[i].success = TRUE
                /\ result[i].listingsFound = CountOf(i, best)
                /\ evaluation[i].workingSelector = Candidate(i, best)

\* Witness of C10: two different candidates with the same count below the
\* threshold; the earlier one is the selector used.
TieKeepsEarlier ==
    \E i \in Calls :
        /\ Evaluated(i)
        /\ NumCandidates(i) = 2
        /\ ValidSelector(Candidate(i, 1)) /\ ValidSelector(Candidate(i, 2))
        /\ Candidate(i, 1) # Candidate(i, 2)
        /\ CountOf(i, 1) = 3 /\ CountOf(i, 2) = 3
        /\ evaluation[i].workingSelector = Candidate(i, 1)

\* Every candidate of invocation i was evaluated and matched 0 elements.
AllMatchedNothing(i) ==
    /\ Evaluated(i)
    /\ \A n \in 1..NumCandidates(i) :
           ValidSelector(Candidate(i, n)) /\ CountOf(i, n) = 0

PhaseNames(i) == [k \in 1..Len(phases[i]) |-> phases[i][k].name]

\* s is an initial part of t.
IsPrefix(s, t) == Len(s) <= Len(t) /\ \A k \in 1..Len(s) : s[k] = t[k]

\* C12: within one invocation the phases are strictly linear with no re-entry:
\* fetching, evaluating, done, or fetching, failed; evaluation begins only
\* after a fetch delivered a body, and a failed outcome comes from fetching only.
LinearPhases ==
    \A i \in Calls :
        /\ \/ IsPrefix(PhaseNames(i), <<"fetching", "evaluating", "done">>)
           \/ IsPrefix(PhaseNames(i), <<"fetching", "failed">>)
        /\ (\E k \in 1..Len(phases[i]) : phases[i][k].name = "evaluating")
               => fetched[i] # None
        /\ Resolved(i) =>
               /\ Len(phases[i]) >= 2
               /\ result[i].success
                      <=> (phases[i][Len(phases[i])].name = "done")

\* The executeScrape of monitor i failed: its scrape failed or saving the log
\* threw.
MonitorFailed(i) ==
    \/ epc[i] = "threw"
    \/ Resolved(i) /\ ~result[i].success

\* C13: POST /api/scrape/all starts executeScrape for every active monitor
\* before any of them finishes, and a failed scrape or a log that could not be
\* saved does not abort the batch: the answer is a success response with one
\* entry per active monitor, in order, success=false for the failed ones, and
\* total the number of active monitors.
BatchSurvivesFailures ==
    /\ hpc = "running" =>
           \A i \in Calls :
               /\ scrapeCalls[i] = IF monitors[i].status = "active" THEN 1 ELSE 0
               /\ monitors[i].status # "active" => epc[i] = "ready"
    /\ (hpc = "responded" /\ \E i \in Calls : scrapeCalls[i] > 0) =>
           /\ response.status = 200
           /\ response.success = TRUE
           /\ response.total = Len(ActiveMonitors)
           /\ Len(response.results) = Len(ActiveMonitors)
           /\ \A k \in 1..Len(ActiveMonitors) :
                  LET i == ActiveMonitors[k]
                  IN  /\ response.results[k].platform = i
                      /\ response.results[k].success = ~MonitorFailed(i)
           /\ response.successful =
                  Cardinality({k \in 1..Len(ActiveMonitors) :
                                   ~MonitorFailed(ActiveMonitors[k])})

\* Witness of C13: two active monitors, one whose log could not be saved and one
\* whose scrape failed, or succeeded, and the batch answered all the same.
BatchAnsweredDespiteThrow ==
    /\ hpc = "responded"
    /\ response.status = 200
    /\ response.total = 2
    /\ \E i, j \in Calls :
           /\ i # j
           /\ epc[i] = "threw"
           /\ epc[j] = "returned" /\ result[j].success
           /\ response.successful = 1

\* The fields of a ScrapeResult other than its times.
Outcome(r) == [f \in DOMAIN r \ {"responseTime"} |-> r[f]]

\* What invocation i returns when it runs alone with the same arguments and the
\* same answers to its requests: the evaluation of the body it was delivered,
\* or the failure of its direct request.
Alone(i) ==
    IF fetched[i] # None
    THEN Settle(HashAndEvaluate(fetched[i], monitors[i].selector).completion).value
    ELSE FailureResult(caught[i])

\* C14: the invocations of scrape that run concurrently on the one BaseScraper
\* of ScrapeService do not interfere: each works on its own url, selector and
\* options, is answered by its own site, and returns what it returns alone.
InvocationsIndependent ==
    \A i \in Calls :
        /\ args[i] # None =>
               args[i] = [url |-> monitors[i].url,
                          selector |-> monitors[i].selector,
                          options |-> ServiceOptions]
        /\ \A k \in 1..Len(requests[i]) : requests[i][k].url = monitors[i].url
        /\ fetched[i] # None => fetched[i] \in SiteBodies(monitors[i].url)
        /\ Resolved(i) =>
               /\ fetched[i] = None =>
                      \E kind \in SiteFailures(monitors[i].url) :
                          caught[i] = FetchError(kind, "direct", ServiceTimeout)
               /\ Outcome(result[i]) = Alone(i)

\* Witness of C14: two invocations in flight together were delivered the same
\* page and returned different counts, each for its own selector.
SamePageOwnSelectors ==
    \E i, j \in Calls :
        /\ i # j
        /\ Resolved(i) /\ Resolved(j)
        /\ FetchedPage(i) /\ fetched[i] = fetched[j]
        /\ args[i].selector # args[j].selector
        /\ result[i].success /\ result[j].success
        /\ result[i].listingsFound # result[j].listingsFound

\* The expected minimum of a monitor, as an object of type PlatformMonitor or as
\* a row of the table.
ExpectedMinOf(monitor) ==
    IF "expectedMinListings" \in DOMAIN monitor THEN monitor.expectedMinListings
    ELSE monitor.expected_min_listings

\* The category C15 gives the outcome r of a scrape of monitor, Null for none.
CategoryOf(monitor, r) ==
    IF ~r.success THEN "scrape_failure"
    ELSE IF r.listingsFound = 0 THEN "no_listings"
    ELSE IF r.listingsFound < ExpectedMinOf(monitor) THEN "low_listings"
    ELSE Null

\* The alert inserts executeScrape call i has sent.
AlertsOf(i) == SelectSeq(alertInserts, LAMBDA a : a.platform_id = i)

\* C15: an executeScrape that returned has created exactly one unresolved alert
\* when the outcome is failed or below threshold, of type scrape_failure for
\* success=false, no_listings for a success with listingsFound = 0, low_listings
\* for a success with 0 < listingsFound < expectedMinListings; otherwise none,
\* and never more than one.
OneAlertPerBadOutcome ==
    \A i \in Calls :
        /\ Len(AlertsOf(i)) <= 1
        /\ epc[i] = "returned" =>
               IF CategoryOf(monitors[i], result[i]) = Null
               THEN AlertsOf(i) = <<>>
               ELSE AlertsOf(i) =
                        <<[platform_id |-> i,
                           alert_type |-> CategoryOf(monitors[i], result[i]),
                           resolved |-> FALSE]>>

\* C16: two invocations of scrape that fetched the same HTML report the same
\* htmlHash, whichever path delivered it and whatever their selector, options
\* or time: the hash is a function of the HTML alone.
SameHtmlSameHash ==
    \A i, j \in Calls :
        (/\ Resolved(i) /\ Resolved(j)
         /\ FetchedPage(i) /\ fetched[i] = fetched[j])
            => result[i].htmlHash = result[j].htmlHash

\* Every request of every invocation has the timeout that timeoutOf gives its
\* path for the options of the invocation.
TimeoutsFollow(T(_)) ==
    \A i \in DOMAIN requests :
        \A k \in 1..Len(requests[i]) :
            requests[i][k].timeout =
                IF requests[i][k].path = "proxy" THEN T(args[i].options) + 5000
                ELSE T(args[i].options)

\* The configured timeout as C17 states it: options.timeout, 30000 when it is
\* not given.
StatedTimeout(options) ==
    IF "timeout" \in DOMAIN options THEN options.timeout ELSE 30000

\* The configured timeout as the code takes it: 30000 also when it is given as 0.
TakenTimeout(options) ==
    IF "timeout" \in DOMAIN options /\ options.timeout # 0
    THEN options.timeout ELSE 30000

ResponseTimeIsElapsed ==
    \A i \in DOMAIN spc :
        Resolved(i) =>
            /\ "responseTime" \in DOMAIN result[i]
            /\ phases[i][1].name = "fetching"
            /\ result[i].responseTime =
                   phases[i][Len(phases[i])].at - phases[i][1].at
            /\ result[i].responseTime >= 0

\* Witness of C18: a failed result after a failed proxy attempt and a failed
\* fallback, with time having passed since the start.
FailureTookTime ==
    \E i \in DOMAIN spc :
        /\ Resolved(i)
        /\ ~result[i].success
        /\ proxyError[i] # None
        /\ fetched[i] = None
        /\ phases[i][1].at > 0
        /\ result[i].responseTime >= 2

\* Invocation i has a request in flight.
InFlight(i) == spc[i] \in {"proxy", "direct"}

\* C19: when every request is answered or runs into its timeout, every
\* invocation of scrape that has a request in flight completes, and once it has
\* completed its one outcome stays as it is.
Termination ==
    /\ \A i \in ScraperIds : InFlight(i) ~> Resolved(i)
    /\ [][\A i \in ScraperIds :
              Resolved(i) =>
                  /\ Resolved(i)'
                  /\ result'[i] = result[i]
                  /\ phases'[i] = phases[i]]_vars

\* Witness of C19: an invocation completed, done or failed, after its proxy
\* request and its direct request had both been in flight.
CompletedAfterBothRequests ==
    \E i \in ScraperIds :
        /\ Resolved(i)
        /\ Len(requests[i]) = 2
        /\ phases[i][Len(phases[i])].name \in {"done", "failed"}
        /\ \A k \in 1..(Len(phases[i]) - 1) :
               phases[i][k].name \notin {"done", "failed"}

\* The handler of POST /api/test-selector has answered with the counts.
Answered == hpc = "responded" /\ testing # None /\ response.status = 200

\* The places of the list of common selectors that match on the page tested.
MatchingPlaces ==
    {k \in 1..Len(commonSelectors) :
         testing.data.matches[commonSelectors[k]] > 0}

\* C20: the answer of POST /api/test-selector has the counts of the tested
\* selector and a ranked list of alternatives: common selectors with their
\* counts on the page, all greater than 0, from the highest count to the
\* lowest, at most 10 of them and none left out that has a higher count than
\* one listed; bestOverall is the first of the list, null when nothing matches.
AlternativesRanked ==
    Answered =>
        LET alt == response.alternatives
            page == testing.data
        IN  /\ response.tested = testing.selector
            /\ Len(response.testedResults) = Len(SplitSelectors(testing.selector))
            /\ \A k \in 1..Len(response.testedResults) :
                   response.testedResults[k].count =
                       SelectorCount(page, SplitSelectors(testing.selector)[k])
            /\ Len(alt) <= 10
            /\ Len(alt) = IF Cardinality(MatchingPlaces) < 10
                          THEN Cardinality(MatchingPlaces) ELSE 10
            /\ \A k \in 1..Len(alt) :
                   /\ alt[k].selector \in CommonSelectorSet
                   /\ alt[k].count = page.matches[alt[k].selector]
                   /\ alt[k].count > 0
            /\ \A k \in 1..(Len(alt) - 1) : alt[k].count >= alt[k + 1].count
            /\ \A sel \in CommonSelectorSet :
                   \/ \E k \in 1..Len(alt) : alt[k].selector = sel
                   \/ page.matches[sel] = 0
                   \/ /\ Len(alt) = 10
                      /\ page.matches[sel] <= alt[10].count
            /\ response.bestOverall = IF alt = <<>> THEN None ELSE alt[1]
            /\ (response.bestOverall = None) <=> (MatchingPlaces = {})

\* Witness of C20: more than 10 common selectors match, with different counts
\* and not in the order of their counts; the 10 listed start with the best.
TenOfManyListed ==
    /\ Answered
    /\ Cardinality(MatchingPlaces) > 10
    /\ Len(response.alternatives) = 10
    /\ response.bestOverall = response.alternatives[1]
    /\ response.alternatives[1].count > response.alternatives[10].count
    /\ response.alternatives[1].selector # commonSelectors[1]

\* C21: every direct request carries a User-Agent header together with the
\* Accept and Accept-Language headers, whatever options the caller passed.
DirectHeadersComplete ==
    \A i \in DOMAIN requests :
        \A k \in 1..Len(requests[i]) :
            requests[i][k].path = "direct" =>
                {"User-Agent", "Accept", "Accept-Language"}
                    \subseteq requests[i][k].headers

\* C22: when the proxy request and the direct request both failed, the error of
\* the result is the message of the rejection of the direct request ("Unknown
\* error" where that rejection is no Error), and the message of the proxy's
\* rejection is the error of a result only where the direct request was
\* rejected with the very same message.
DirectErrorReported ==
    \A i \in Calls :
        /\ Resolved(i) /\ proxyError[i] # None /\ fetched[i] = None =>
               /\ result[i].success = FALSE
               /\ caught[i].origin = "direct"
               /\ \E kind \in SiteFailures(args[i].url) :
                      /\ caught[i] = FetchError(kind, "direct",
                                                DirectTimeout(args[i].options))
                      /\ result[i].error = ErrorMessage(caught[i])
        /\ (/\ Resolved(i) /\ proxyError[i] # None
            /\ "error" \in DOMAIN result[i]
            /\ result[i].error = proxyError[i].message) =>
               caught[i].origin # "proxy" /\ caught[i].message = proxyError[i].message

\* Witness of C22: both requests timed out, the proxy's after its longer
\* timeout, and the result reports the timeout of the direct request.
DirectTimeoutReported ==
    \E i \in Calls :
        /\ Resolved(i) /\ fetched[i] = None
        /\ proxyError[i] # None
        /\ proxyError[i].message = "timeout of 35000ms exceeded"
        /\ result[i].error = "timeout of 30000ms exceeded"

Logged(i) == epc[i] \in {"alerting", "returned"}

RowsOf(i) == SelectSeq(scrapeLogs, LAMBDA row : row.platform_id = i)

\* C23: the rows of scrape_logs mirror the outcomes.  There is one row for every
\* executeScrape whose insert succeeded and no other row, the row carries the
\* outcome of that call, a row with success = false has listings_found = 0,
\* html_hash = '' and an error_message that is not null, and a row with
\* success = true has a null error_message.
LogsMirrorOutcomes ==
    /\ \A i \in Calls :
           /\ Len(RowsOf(i)) = IF Logged(i) THEN 1 ELSE 0
           /\ Logged(i) =>
                  /\ RowsOf(i)[1].success = result[i].success
                  /\ RowsOf(i)[1].listings_found = result[i].listingsFound
                  /\ RowsOf(i)[1].html_hash = result[i].htmlHash
    /\ Len(scrapeLogs) = Cardinality({i \in Calls : Logged(i)})
    /\ \A k \in 1..Len(scrapeLogs) :
           IF scrapeLogs[k].success
           THEN scrapeLogs[k].error_message = Null
           ELSE /\ scrapeLogs[k].listings_found = 0
                /\ scrapeLogs[k].html_hash = ""
                /\ scrapeLogs[k].error_message # Null

\* Witness of C23: two calls of one batch were logged, one row of a failed
\* scrape with its message and one of a successful scrape with a null message,
\* while the insert of no call failed.
FailedAndSuccessfulLogged ==
    /\ Len(scrapeLogs) = 2
    /\ \E k, l \in 1..2 :
           /\ ~scrapeLogs[k].success /\ scrapeLogs[k].error_message # Null
           /\ scrapeLogs[l].success /\ scrapeLogs[l].error_message = Null
                /\ scrapeLogs[l].listings_found > 0

StoredAlertsOf(i) ==
    SelectSeq(platformAlerts, LAMBDA row : row.platform_id = i)

\* C24: the order of executeScrape.  The insert into scrape_logs is sent only
\* once scrape has returned; an insert into platform_alerts is sent, and an
\* alert stored, only for a platform whose scrape log has been stored; and an
\* executeScrape whose log insert failed has thrown without sending an alert.
LogBeforeAlert ==
    \A i \in Calls :
        /\ epc[i] \in {"inserting", "alerting", "returned", "threw"} =>
               Resolved(i) /\ result[i] # None
        /\ RowsOf(i) # <<>> => Resolved(i)
        /\ epc[i] = "alerting" => RowsOf(i) # <<>>
        /\ AlertsOf(i) # <<>> => RowsOf(i) # <<>>
        /\ StoredAlertsOf(i) # <<>> => RowsOf(i) # <<>> /\ AlertsOf(i) # <<>>
        /\ epc[i] = "threw" =>
               /\ RowsOf(i) = <<>>
               /\ AlertsOf(i) = <<>>
               /\ StoredAlertsOf(i) = <<>>

\* Witness of C24: in one batch the scrape of a platform failed, was logged and
\* raised an alert, while the failed scrape of the other platform was not
\* logged, its insert having failed, and raised none.
AlertOnlyWhereLogged ==
    \E i, j \in Calls :
        /\ i # j
        /\ epc[i] = "returned" /\ ~result[i].success
        /\ RowsOf(i) # <<>> /\ StoredAlertsOf(i) # <<>>
        /\ epc[j] = "threw" /\ ~result[j].success /\ AlertsOf(j) = <<>>

\* The original statement of C25: an executeScrape that returned a successful
\* outcome whose listingsFound is at least the monitor's minimum has sent no
\* alert, for every minimum from 0 up.
NoAlertAtOrAboveMinimum ==
    \A i \in Calls :
        (/\ epc[i] \in {"alerting", "returned"}
         /\ result[i].success
         /\ result[i].listingsFound >= ExpectedMinOf(monitors[i])) =>
            AlertsOf(i) = <<>>

\* C25: an executeScrape that returned a successful outcome whose listingsFound
\* is not 0 and is at least the monitor's minimum has sent no alert, for every
\* minimum from 0 up; a success with 0 listings has sent a no_listings alert
\* whatever the minimum is.
NoAlertForListingsAtOrAboveMinimum ==
    \A i \in Calls :
        epc[i] \in {"alerting", "returned"} /\ result[i].success =>
            /\ (/\ result[i].listingsFound # 0
                /\ result[i].listingsFound >= ExpectedMinOf(monitors[i])) =>
                   AlertsOf(i) = <<>>
            /\ result[i].listingsFound = 0 =>
                   /\ Len(AlertsOf(i)) = 1
                   /\ AlertsOf(i)[1].alert_type = "no_listings"

\* Witness of C25: a monitor object with minimum 12 and one with minimum 0, each
\* scraped with as many listings as its minimum or more, returned without alert.
ReturnedAtMinimumWithoutAlert ==
    \E i \in Calls :
        /\ epc[i] = "returned" /\ result[i].success
        /\ "expectedMinListings" \in DOMAIN monitors[i]
        /\ result[i].listingsFound >= 3
        /\ result[i].listingsFound = monitors[i].expectedMinListings
              \/ monitors[i].expectedMinListings = 0
        /\ AlertsOf(i) = <<>>

EventsOf(type) == SelectSeq(retry.events, LAMBDA e : e.type = type)

Settlements == SelectSeq(retry.events, LAMBDA e : e.type \in {"resolve", "reject"})

RejectsWithLastError ==
    /\ retry.pc = "rejected" =>
           /\ EventsOf("reject") # <<>>
           /\ retry.settled =
                  [threw |-> TRUE,
                   error |-> EventsOf("reject")[Len(EventsOf("reject"))].error]
           /\ retry.events[Len(retry.events)].type = "reject"
           /\ Len(EventsOf("sleep")) = Len(EventsOf("reject")) - 1
    /\ \A k \in 1..Len(EventsOf("sleep")) :
           EventsOf("sleep")[k].ms = retry.initialDelay * 2^(k - 1)
    /\ \A k \in 1..Len(retry.events) :
           retry.events[k].type = "sleep" =>
               /\ retry.events[k - 1].type = "reject"
               /\ k < Len(retry.events) => retry.events[k + 1].type = "call"

\* The request of POST /api/scrape/:platformId names an active row of the table.
NamesActiveMonitor ==
    /\ params.platformId \in Calls
    /\ monitors[params.platformId].status = "active"

Untouched(i) ==
    /\ scrapeCalls[i] = 0 /\ requests[i] = <<>>
    /\ RowsOf(i) = <<>> /\ AlertsOf(i) = <<>>

\* The original statement of C28: a scrape is executed and logged only for the
\* active monitor whose id is platformId, and a request with any other id is
\* answered 404 with nothing fetched, logged or alerted.
OtherIdsAnswered404 ==
    /\ \A i \in Calls :
           ~Untouched(i) =>
               params # None /\ params.platformId = i /\ NamesActiveMonitor
    /\ hpc = "responded" /\ ~NamesActiveMonitor =>
           /\ response = [status |-> 404, error |-> "Monitor not found"]
           /\ \A i \in Calls : Untouched(i)

\* C28: a scrape is executed and logged only for the active monitor whose id is
\* platformId; a request with any other id (of no row, of a paused row, of a row
\* in error) is answered 404, or 500 where the query for the active monitors
\* failed, with nothing fetched, logged or alerted.
OnlyActiveMonitorScraped ==
    /\ \A i \in Calls :
           ~Untouched(i) =>
               params # None /\ params.platformId = i /\ NamesActiveMonitor
    /\ hpc = "responded" /\ ~NamesActiveMonitor =>
           /\ \/ response = [status |-> 404, error |-> "Monitor not found"]
              \/ response = [status |-> 500, error |-> "Failed to execute scrape"]
           /\ \A i \in Calls : Untouched(i)
    /\ hpc = "running" => NamesActiveMonitor

\* Witness of C28: the request named a row in error while the other row of the
\* table was active; it was answered 404 and nothing was fetched.
ErrorMonitorNotScraped ==
    /\ hpc = "responded"
    /\ params.platformId \in Calls
    /\ monitors[params.platformId].status = "error"
    /\ \E j \in Calls : monitors[j].status = "active"
    /\ response.status = 404
    /\ \A i \in Calls : Untouched(i)

SupportedCities == {"amsterdam", "rotterdam", "utrecht"}

\* C29: a request for a city that, in lower case, is none of amsterdam,
\* rotterdam and utrecht is answered 400 with a 'not supported' error at once,
\* and no url is requested for it.
UnsupportedCityRejected ==
    (/\ hpc # "idle"
     /\ toLowerCase(params.city) \notin SupportedCities) =>
        /\ analysis = None
        /\ hpc = "responded"
        /\ response.status = 400

IsInteger(x) == DOMAIN x = {"n", "d"} /\ x.n % x.d = 0

\* C30: calculateQualityScore never throws and returns an integer from 0 to
\* 100 whatever the monitor and the logs are, 0 when there is no log or a
\* lookup failed.
ScoreIsPercentage ==
    /\ quality.pc \in {"ready", "monitor", "logs", "returned"}
    /\ quality.pc = "returned" =>
           /\ IsInteger(quality.score)
           /\ ~Less(quality.score, Number(0))
           /\ ~Less(Number(100), quality.score)
           /\ quality.monitor = None \/ quality.logs = <<>> =>
                  quality.score = Number(0)

====
